---- MODULE Spec2Model ----
(***************************************************************************)
(* Rapunzel native helper (native-app/native-host.js): the length-prefixed *)
(* message framing on stdin/stdout, the sequential dispatch loop, the      *)
(* extension scan, the load/unload orchestration and the in-memory         *)
(* registry of loaded extensions.                                          *)
(*                                                                         *)
(* Bytes are integers 0..255.  A byte string is kept run-length encoded    *)
(* (a sequence of runs [b |-> byte, n |-> count], adjacent runs differing  *)
(* in b), so that a body of 1 MiB is a value that TLC can hold.  The       *)
(* encoding is canonical: two byte strings are equal iff their run         *)
(* sequences are equal.                                                    *)
(***************************************************************************)
EXTENDS Integers, Sequences, FiniteSets, TLC

(***************************************************************************)
(* Bounds of the exploration.                                              *)
(***************************************************************************)
MaxFrames == 3      \* requests the browser side posts in one run (Spec)
MaxWireFrames == 2  \* frames written to the pipe in one run (SpecWire)
MaxSplits == 2      \* deliveries that cut the pipe's content short (SpecWire)
MaxClock == 2       \* milliseconds Date.now() advances in one run
MaxPorts == 3       \* ports the background script opens in one run (SpecPort)
MaxPosted == 2      \* messages posted on one port (SpecPort)
MaxTimers == 2      \* retry timers pending at one time (SpecPort)

(***************************************************************************)
(* Program constants.                                                      *)
(***************************************************************************)
MAX_MESSAGE == 1048576        \* 1024 * 1024, readMessage's length limit
PREFIX_BYTES == 4             \* Buffer.alloc(4): the length prefix

(***************************************************************************)
(* Run-length encoded byte strings.                                        *)
(***************************************************************************)
Run(b, n) == [b |-> b, n |-> n]

RECURSIVE RLen(_)
RLen(s) == IF s = << >> THEN 0 ELSE s[1].n + RLen(Tail(s))

RCat(s, t) ==
  IF s = << >> THEN t
  ELSE IF t = << >> THEN s
  ELSE IF s[Len(s)].b = t[1].b
       THEN SubSeq(s, 1, Len(s) - 1)
              \o << Run(t[1].b, s[Len(s)].n + t[1].n) >> \o Tail(t)
       ELSE s \o t

RECURSIVE RTake(_, _)
RTake(s, k) ==
  IF k <= 0 \/ s = << >> THEN << >>
  ELSE IF s[1].n <= k THEN << s[1] >> \o RTake(Tail(s), k - s[1].n)
  ELSE << Run(s[1].b, k) >>

RECURSIVE RDrop(_, _)
RDrop(s, k) ==
  IF k <= 0 \/ s = << >> THEN s
  ELSE IF s[1].n <= k THEN RDrop(Tail(s), k - s[1].n)
  ELSE << Run(s[1].b, s[1].n - k) >> \o Tail(s)

RECURSIVE Rle(_)
Rle(bytes) ==
  IF bytes = << >> THEN << >>
  ELSE RCat(<< Run(bytes[1], 1) >>, Rle(Tail(bytes)))

\* the bytes of a short run-length encoded string, one element per byte
RECURSIVE Unrle(_)
Unrle(s) ==
  IF s = << >> THEN << >>
  ELSE << s[1].b >> \o Unrle(RDrop(s, 1))

(***************************************************************************)
(* Buffer.readUInt32LE / Buffer.writeUInt32LE.  The integers of TLC are    *)
(* 32-bit signed, so a value of 2^31 or more is reported as 2^31 - 1: the  *)
(* program only compares the value with 0 and 2^20 and reads that many     *)
(* bytes when it is below 2^20, so the saturation changes no behaviour.    *)
(***************************************************************************)
readUInt32LE(buf) ==
  IF buf[4] >= 128 THEN 2147483647
  ELSE buf[1] + 256 * buf[2] + 65536 * buf[3] + 16777216 * buf[4]

writeUInt32LE(v) ==
  << v % 256, (v \div 256) % 256, (v \div 65536) % 256, (v \div 16777216) % 256 >>

(***************************************************************************)
(* JSON texts.  A JSON value of the model is a record                      *)
(*   [t, s, action, path]                                                  *)
(* t = "null"; t = "num" with the digits s; t = "str" with the content     *)
(* bytes s; t = "obj", an object with the optional string members action   *)
(* and path (Absent when the member is missing).  Member strings are named *)
(* symbolically and spelled out in ASCII by Ascii.                         *)
(***************************************************************************)
Absent == "<absent>"

Ascii(name) ==
  CASE name = "status"     -> << 115, 116, 97, 116, 117, 115 >>
    [] name = "scan"       -> << 115, 99, 97, 110 >>
    [] name = "set_folder" -> << 115, 101, 116, 95, 102, 111, 108, 100, 101, 114 >>
    [] name = "load"       -> << 108, 111, 97, 100 >>
    [] name = "load_all"   -> << 108, 111, 97, 100, 95, 97, 108, 108 >>
    [] name = "unload"     -> << 117, 110, 108, 111, 97, 100 >>
    [] name = "unload_all" -> << 117, 110, 108, 111, 97, 100, 95, 97, 108, 108 >>
    [] name = "bogus"      -> << 98, 111, 103, 117, 115 >>
    [] name = "/ext"       -> << 47, 101, 120, 116 >>
    [] name = "/ext/a"     -> << 47, 101, 120, 116, 47, 97 >>
    [] name = "/ext/b"     -> << 47, 101, 120, 116, 47, 98 >>
    [] name = "/nowhere"   -> << 47, 110, 111, 119, 104, 101, 114, 101 >>

ActionNames ==
  { "status", "scan", "set_folder", "load", "load_all", "unload", "unload_all" }
PathNames == { "/ext", "/ext/a", "/ext/b", "/nowhere" }

JNull == [t |-> "null", s |-> << >>, action |-> "", path |-> ""]
JNum(digits) == [t |-> "num", s |-> digits, action |-> "", path |-> ""]
JStr(content) == [t |-> "str", s |-> content, action |-> "", path |-> ""]
JObj(action, path) == [t |-> "obj", s |-> << >>, action |-> action, path |-> path]

JObjects ==
  { JObj(a, p) : a \in ActionNames \cup { "bogus", Absent },
                 p \in PathNames \cup { Absent } }

TxtNull == << 110, 117, 108, 108 >>                                 \* null
TxtActionKey == << 123, 34, 97, 99, 116, 105, 111, 110, 34, 58, 34 >> \* {"action":"
TxtPathKey == << 123, 34, 112, 97, 116, 104, 34, 58, 34 >>          \* {"path":"
TxtThenPath == << 34, 44, 34, 112, 97, 116, 104, 34, 58, 34 >>      \* ","path":"
TxtClose == << 34, 125 >>                                           \* "}
TxtEmptyObj == << 123, 125 >>                                       \* {}
Quote == << Run(34, 1) >>

\* JSON.stringify, on the values of the model (no whitespace is produced)
JSONstringify(v) ==
  CASE v.t = "null" -> Rle(TxtNull)
    [] v.t = "num"  -> v.s
    [] v.t = "str"  -> RCat(RCat(Quote, v.s), Quote)
    [] v.t = "obj"  ->
         IF v.action = Absent /\ v.path = Absent THEN Rle(TxtEmptyObj)
         ELSE IF v.path = Absent
              THEN Rle(TxtActionKey \o Ascii(v.action) \o TxtClose)
         ELSE IF v.action = Absent
              THEN Rle(TxtPathKey \o Ascii(v.path) \o TxtClose)
         ELSE Rle(TxtActionKey \o Ascii(v.action) \o TxtThenPath
                    \o Ascii(v.path) \o TxtClose)

JsonWs == { 9, 10, 13, 32 }

RECURSIVE TrimLeft(_)
TrimLeft(s) ==
  IF s # << >> /\ s[1].b \in JsonWs THEN TrimLeft(Tail(s)) ELSE s

RECURSIVE TrimRight(_)
TrimRight(s) ==
  IF s # << >> /\ s[Len(s)].b \in JsonWs
  THEN TrimRight(SubSeq(s, 1, Len(s) - 1)) ELSE s

\* a JSON string literal without escapes: " chars ", no quote, backslash or
\* control character inside
IsJsonString(t) ==
  \/ t = << Run(34, 2) >>
  \/ /\ Len(t) >= 3
     /\ t[1] = Run(34, 1)
     /\ t[Len(t)] = Run(34, 1)
     /\ \A i \in 2 .. (Len(t) - 1) : t[i].b >= 32 /\ t[i].b \notin { 34, 92 }

\* a JSON number made of digits only (no leading zero)
IsJsonNumber(t) ==
  /\ t # << >>
  /\ \A i \in 1 .. Len(t) : t[i].b \in 48 .. 57
  /\ (t[1].b = 48 => RLen(t) = 1)

SyntaxError == [t |-> "SyntaxError", s |-> << >>, action |-> "", path |-> ""]

\* the texts of the objects of the model, computed once
ObjectTexts == { JSONstringify(o) : o \in JObjects }
ObjectOfText == [ t \in ObjectTexts |-> CHOOSE o \in JObjects : JSONstringify(o) = t ]

\* JSON.parse: the value of a text, or SyntaxError.  Every text that is not
\* the literal null, a digit string, an escape-free string literal or the text
\* of one of JObjects is rejected; the byte strings the model can cut out of
\* its streams hold no other JSON text.
JSONparse(text) ==
  LET t == TrimRight(TrimLeft(text)) IN
  IF t = Rle(TxtNull) THEN JNull
  ELSE IF IsJsonNumber(t) THEN JNum(t)
  ELSE IF IsJsonString(t) THEN JStr(SubSeq(RDrop(t, 1), 1, Len(RDrop(t, 1)) - 1))
  ELSE IF t \in ObjectTexts THEN ObjectOfText[t]
  ELSE SyntaxError

(***************************************************************************)
(* sendMessage: the bytes written for one message, the 4-byte little-endian *)
(* byte length of the UTF-8 JSON text followed by the text.                *)
(***************************************************************************)
sendMessage(message) ==
  LET messageBuffer == JSONstringify(message)
      lengthBuffer == Rle(writeUInt32LE(RLen(messageBuffer)))
  IN  RCat(lengthBuffer, messageBuffer)

(***************************************************************************)
(* The output of the helper.  A response is written by sendMessage as two  *)
(* calls of process.stdout.write; a diagnostic is written by logError with *)
(* console.error, which writes to process.stderr.                          *)
(*                                                                         *)
(* CodeUnits spells out the strings of the responses of the model as       *)
(* UTF-16 code units, the characters of a JavaScript string.               *)
(***************************************************************************)
CodeUnits(s) ==
  CASE s = "type" -> << 116, 121, 112, 101 >>
    [] s = "firefoxFound" -> << 102, 105, 114, 101, 102, 111, 120, 70, 111, 117, 110, 100 >>
    [] s = "extensionFolder" -> << 101, 120, 116, 101, 110, 115, 105, 111, 110, 70, 111, 108, 100, 101, 114 >>
    [] s = "loadedCount" -> << 108, 111, 97, 100, 101, 100, 67, 111, 117, 110, 116 >>
    [] s = "extensions" -> << 101, 120, 116, 101, 110, 115, 105, 111, 110, 115 >>
    [] s = "folder" -> << 102, 111, 108, 100, 101, 114 >>
    [] s = "success" -> << 115, 117, 99, 99, 101, 115, 115 >>
    [] s = "path" -> << 112, 97, 116, 104 >>
    [] s = "method" -> << 109, 101, 116, 104, 111, 100 >>
    [] s = "profilePath" -> << 112, 114, 111, 102, 105, 108, 101, 80, 97, 116, 104 >>
    [] s = "error" -> << 101, 114, 114, 111, 114 >>
    [] s = "results" -> << 114, 101, 115, 117, 108, 116, 115 >>
    [] s = "totalLoaded" -> << 116, 111, 116, 97, 108, 76, 111, 97, 100, 101, 100 >>
    [] s = "totalFailed" -> << 116, 111, 116, 97, 108, 70, 97, 105, 108, 101, 100 >>
    [] s = "name" -> << 110, 97, 109, 101 >>
    [] s = "version" -> << 118, 101, 114, 115, 105, 111, 110 >>
    [] s = "description" -> << 100, 101, 115, 99, 114, 105, 112, 116, 105, 111, 110 >>
    [] s = "manifestVersion" -> << 109, 97, 110, 105, 102, 101, 115, 116, 86, 101, 114, 115, 105, 111, 110 >>
    [] s = "status" -> << 115, 116, 97, 116, 117, 115 >>
    [] s = "extensions_list" -> << 101, 120, 116, 101, 110, 115, 105, 111, 110, 115, 95, 108, 105, 115, 116 >>
    [] s = "folder_set" -> << 102, 111, 108, 100, 101, 114, 95, 115, 101, 116 >>
    [] s = "load_result" -> << 108, 111, 97, 100, 95, 114, 101, 115, 117, 108, 116 >>
    [] s = "load_all_result" -> << 108, 111, 97, 100, 95, 97, 108, 108, 95, 114, 101, 115, 117, 108, 116 >>
    [] s = "unload_result" -> << 117, 110, 108, 111, 97, 100, 95, 114, 101, 115, 117, 108, 116 >>
    [] s = "unload_all_result" -> << 117, 110, 108, 111, 97, 100, 95, 97, 108, 108, 95, 114, 101, 115, 117, 108, 116 >>
    [] s = "" -> <<  >>
    [] s = "/ext" -> << 47, 101, 120, 116 >>
    [] s = "/ext/a" -> << 47, 101, 120, 116, 47, 97 >>
    [] s = "/ext/b" -> << 47, 101, 120, 116, 47, 98 >>
    [] s = "/ext/c" -> << 47, 101, 120, 116, 47, 99 >>
    [] s = "/nowhere" -> << 47, 110, 111, 119, 104, 101, 114, 101 >>
    [] s = "web-ext" -> << 119, 101, 98, 45, 101, 120, 116 >>
    [] s = "profile" -> << 112, 114, 111, 102, 105, 108, 101 >>
    [] s = "Firefox not found" -> << 70, 105, 114, 101, 102, 111, 120, 32, 110, 111, 116, 32, 102, 111, 117, 110, 100 >>
    [] s = "spawn failed" -> << 115, 112, 97, 119, 110, 32, 102, 97, 105, 108, 101, 100 >>
    [] s = "copy failed" -> << 99, 111, 112, 121, 32, 102, 97, 105, 108, 101, 100 >>
    [] s = "manifest unreadable" -> << 109, 97, 110, 105, 102, 101, 115, 116, 32, 117, 110, 114, 101, 97, 100, 97, 98, 108, 101 >>
    [] s = "kill failed" -> << 107, 105, 108, 108, 32, 102, 97, 105, 108, 101, 100 >>
    [] s = "Extension not found in loaded list" -> << 69, 120, 116, 101, 110, 115, 105, 111, 110, 32, 110, 111, 116, 32, 102, 111, 117, 110, 100, 32, 105, 110, 32, 108, 111, 97, 100, 101, 100, 32, 108, 105, 115, 116 >>
    [] s = "Unknown action" -> << 85, 110, 107, 110, 111, 119, 110, 32, 97, 99, 116, 105, 111, 110 >>
    [] s = "Invalid JSON" -> << 73, 110, 118, 97, 108, 105, 100, 32, 74, 83, 79, 78 >>
    [] s = "homedir" -> << 104, 111, 109, 101, 100, 105, 114 >>
    [] s = "A" -> << 65 >>
    [] s = "B" -> << 66 >>
    [] s = "a" -> << 97 >>
    [] s = "b" -> << 98 >>
    [] s = "c" -> << 99 >>
    [] s = "1.0" -> << 49, 46, 48 >>
    [] s = "0.0.0" -> << 48, 46, 48, 46, 48 >>
    [] s = "about b" -> << 97, 98, 111, 117, 116, 32, 98 >>
    [] s = "café" -> << 99, 97, 102, 233 >>
    [] s = "Failed to load config:" -> << 70, 97, 105, 108, 101, 100, 32, 116, 111, 32, 108, 111, 97, 100, 32, 99, 111, 110, 102, 105, 103, 58 >>
    [] s = "Failed to save config:" -> << 70, 97, 105, 108, 101, 100, 32, 116, 111, 32, 115, 97, 118, 101, 32, 99, 111, 110, 102, 105, 103, 58 >>
    [] s = "Invalid manifest in /ext/b:" -> << 73, 110, 118, 97, 108, 105, 100, 32, 109, 97, 110, 105, 102, 101, 115, 116, 32, 105, 110, 32, 47, 101, 120, 116, 47, 98, 58 >>
    [] s = "Error processing message:" -> << 69, 114, 114, 111, 114, 32, 112, 114, 111, 99, 101, 115, 115, 105, 110, 103, 32, 109, 101, 115, 115, 97, 103, 101, 58 >>
    [] s = "/tmp/rapunzel-profile-0" -> << 47, 116, 109, 112, 47, 114, 97, 112, 117, 110, 122, 101, 108, 45, 112, 114, 111, 102, 105, 108, 101, 45, 48 >>
    [] s = "/tmp/rapunzel-profile-1" -> << 47, 116, 109, 112, 47, 114, 97, 112, 117, 110, 122, 101, 108, 45, 112, 114, 111, 102, 105, 108, 101, 45, 49 >>
    [] s = "/tmp/rapunzel-profile-2" -> << 47, 116, 109, 112, 47, 114, 97, 112, 117, 110, 122, 101, 108, 45, 112, 114, 111, 102, 105, 108, 101, 45, 50 >>
    [] s = "/tmp/rapunzel-profile-3" -> << 47, 116, 109, 112, 47, 114, 97, 112, 117, 110, 122, 101, 108, 45, 112, 114, 111, 102, 105, 108, 101, 45, 51 >>
    [] s = "/tmp/rapunzel-profile-4" -> << 47, 116, 109, 112, 47, 114, 97, 112, 117, 110, 122, 101, 108, 45, 112, 114, 111, 102, 105, 108, 101, 45, 52 >>
    [] s = "/tmp/rapunzel-profile-5" -> << 47, 116, 109, 112, 47, 114, 97, 112, 117, 110, 122, 101, 108, 45, 112, 114, 111, 102, 105, 108, 101, 45, 53 >>
    [] s = "/tmp/rapunzel-profile-6" -> << 47, 116, 109, 112, 47, 114, 97, 112, 117, 110, 122, 101, 108, 45, 112, 114, 111, 102, 105, 108, 101, 45, 54 >>

\* the decimal digits of a natural number
RECURSIVE Digits(_)
Digits(n) == IF n < 10 THEN << 48 + n >> ELSE Digits(n \div 10) \o << 48 + (n % 10) >>

\* JSON.stringify of a string (none of the strings of the model holds a
\* character that is escaped), a boolean, a member, an object, an array
StringText(s) == << 34 >> \o CodeUnits(s) \o << 34 >>
BooleanText(b) == IF b THEN << 116, 114, 117, 101 >> ELSE << 102, 97, 108, 115, 101 >>
Member(key, text) == StringText(key) \o << 58 >> \o text

RECURSIVE Joined(_)
Joined(texts) ==
  IF texts = << >> THEN << >>
  ELSE IF Len(texts) = 1 THEN texts[1]
  ELSE texts[1] \o << 44 >> \o Joined(Tail(texts))

ObjectText(members) == << 123 >> \o Joined(members) \o << 125 >>

\* a member whose value is undefined is left out
StringMember(key, s) == IF s = Absent THEN << >> ELSE << Member(key, StringText(s)) >>

DescriptorText(e) ==
  ObjectText(<< Member("name", StringText(e.name)),
                Member("version", StringText(e.version)),
                Member("description", StringText(e.description)),
                Member("path", StringText(e.path)),
                Member("folder", StringText(e.folder)),
                Member("manifestVersion", Digits(e.manifestVersion)) >>)

LoadEntryText(r) ==
  ObjectText(<< Member("name", StringText(r.name)),
                Member("success", BooleanText(r.success)) >>
             \o StringMember("error", IF r.success THEN Absent ELSE r.error))

UnloadEntryText(r) ==
  ObjectText(<< Member("path", StringText(r.path)),
                Member("success", BooleanText(r.success)) >>
             \o StringMember("error", IF r.success THEN Absent ELSE r.error))

\* JSON.stringify(message) for the responses of the model, with the members
\* the model keeps, in the order in which the source lists them
Stringify(m) ==
  LET type == << Member("type", StringText(m.type)) >> IN
  CASE m.type = "status" ->
         ObjectText(type \o << Member("firefoxFound", BooleanText(m.firefoxFound)) >>
                    \o StringMember("extensionFolder", m.extensionFolder)
                    \o << Member("loadedCount", Digits(m.loadedCount)) >>)
    [] m.type = "extensions_list" ->
         ObjectText(type
                    \o << Member("extensions",
                                 << 91 >> \o Joined([ i \in 1 .. Len(m.extensions) |->
                                               DescriptorText(m.extensions[i]) ]) \o << 93 >>) >>
                    \o StringMember("folder", m.folder))
    [] m.type = "folder_set" ->
         ObjectText(type \o << Member("success", BooleanText(m.success)) >>
                    \o StringMember("path", m.path))
    [] m.type = "load_result" ->
         IF m.success
         THEN ObjectText(type \o << Member("success", BooleanText(TRUE)) >>
                         \o StringMember("path", m.path)
                         \o StringMember("method", m.method)
                         \o StringMember("profilePath", m.profilePath))
         ELSE ObjectText(type \o << Member("success", BooleanText(FALSE)),
                                    Member("error", StringText(m.error)) >>
                         \o StringMember("path", m.path))
    [] m.type = "load_all_result" ->
         ObjectText(type
                    \o << Member("results",
                                 << 91 >> \o Joined([ i \in 1 .. Len(m.results) |->
                                               LoadEntryText(m.results[i]) ]) \o << 93 >>),
                          Member("totalLoaded", Digits(m.totalLoaded)),
                          Member("totalFailed", Digits(m.totalFailed)) >>)
    [] m.type = "unload_result" ->
         ObjectText(type \o << Member("success", BooleanText(m.success)) >>
                    \o StringMember("error", IF m.success THEN Absent ELSE m.error)
                    \o StringMember("path", m.path))
    [] m.type = "unload_all_result" ->
         ObjectText(type
                    \o << Member("results",
                                 << 91 >> \o Joined([ i \in 1 .. Len(m.results) |->
                                               UnloadEntryText(m.results[i]) ]) \o << 93 >>) >>)
    [] m.type = "error" ->
         ObjectText(type \o << Member("error", StringText(m.error)) >>)

\* Buffer.from(messageStr, 'utf8'): one byte for a code unit below 128, two
\* below 2048, three otherwise (the strings of the model hold no surrogate)
RECURSIVE BufferFrom(_)
BufferFrom(units) ==
  IF units = << >> THEN << >>
  ELSE IF Len(units) = 1
  THEN LET u == units[1]
       IN  IF u < 128 THEN << u >>
           ELSE IF u < 2048 THEN << 192 + (u \div 64), 128 + (u % 64) >>
           ELSE << 224 + (u \div 4096), 128 + ((u \div 64) % 64), 128 + (u % 64) >>
  ELSE BufferFrom(SubSeq(units, 1, Len(units) \div 2))
         \o BufferFrom(SubSeq(units, (Len(units) \div 2) + 1, Len(units)))

\* The streams of the process are kept as the chunks passed to
\* process.stdout.write and the diagnostics passed to console.error, each
\* in order.

\* a sendMessage that writes the number of characters as the length
sendMessageCountingCharacters(streams, message) ==
  LET messageStr == Stringify(message)
      messageBuffer == BufferFrom(messageStr)
      lengthBuffer == writeUInt32LE(Len(messageStr))
  IN  [ streams EXCEPT !.stdout = @ \o << lengthBuffer, messageBuffer >> ]

\* sendMessage, as the calls it makes on process.stdout
sendMessageOn(streams, message) ==
  LET messageStr == Stringify(message)
      messageBuffer == BufferFrom(messageStr)
      lengthBuffer == writeUInt32LE(Len(messageBuffer))
  IN  [ streams EXCEPT !.stdout = @ \o << lengthBuffer, messageBuffer >> ]

logError(streams, diagnostic) ==
  [ streams EXCEPT !.stderr = Append(@, diagnostic) ]

\* what a turn leaves on the streams: its diagnostics and its responses
RECURSIVE Written(_, _, _)
Written(streams, diagnostics, sends) ==
  IF diagnostics # << >>
  THEN Written(logError(streams, diagnostics[1]), Tail(diagnostics), sends)
  ELSE IF sends # << >>
  THEN Written(sendMessageOn(streams, sends[1]), << >>, Tail(sends))
  ELSE streams

(***************************************************************************)
(* State.                                                                  *)
(***************************************************************************)
VARIABLES
  pipe,              \* bytes the browser side has written, not yet read by stdin
  portClosed,        \* the browser side has closed its end of the pipe
  stdin,             \* process.stdin: buffer, ended, endEmitted,
                     \*   readableListening, scheduled (a pending nextTick emission)
  listeners,         \* the 'readable' listeners attached to stdin, in order
  pc,                \* main: "start", "awaiting", "settled", "closed", "crashed"
  result,            \* how the promise main awaits was settled
  config,            \* the in-memory config
  configFile,        \* ~/.rapunzel/config.json: present, content, data
  loadedExtensions,  \* the Map path -> record, in insertion order
  children,          \* every process spawned so far, in spawn order
  profiles,          \* every temporary profile directory prepared so far
  clock,             \* the latest value Date.now() returned
  disk,              \* the rest of the file system, see Disks
  out,               \* the messages main passed to sendMessage in its latest turn
  handled,           \* the promise result main consumed in its latest turn
  turn,              \* the number of promise results main has consumed
  answered,          \* the number of those turns that wrote a response
  nsent,             \* the number of frames the browser side has written
  kindsSent,         \* the kinds of frames the browser side has written
  firstFrame,        \* the first frame SendWire has written to the pipe
  reported,          \* the paths the latest load/unload responses report as loaded
  mirror,            \* background.js: the paths of the entries of its
                     \*   loadedExtensions array, in order
  stdio,             \* what the latest turn of main wrote: the chunks passed
                     \*   to process.stdout.write, the diagnostics on stderr
  nativePort,        \* background.js: the port nativePort refers to, 0 for null
  isConnected,       \* background.js: isConnected
  ports,             \* the ports connectNative has returned, in order: open
                     \*   until its onDisconnect fires, and the messages posted
  timers,            \* background.js: pending setTimeout callbacks of sendToNative
  splits             \* the number of short deliveries so far

vars ==
  << pipe, portClosed, stdin, listeners, pc, result, config, configFile,
     loadedExtensions, children, profiles, clock, disk, out, handled, turn, answered,
     nsent, kindsSent, firstFrame, reported, mirror, stdio, nativePort, isConnected,
     ports, timers, splits >>

browserVars == << nsent, kindsSent, firstFrame, nativePort, isConnected, ports, timers >>
mainVars == << out, handled, turn, answered, reported, mirror, stdio >>

helperVars == << config, configFile, loadedExtensions, children, profiles, clock >>

(***************************************************************************)
(* process.stdin.read(n) on a paused stream: n bytes when the buffer holds *)
(* them, what is left once the stream has ended, otherwise null.  endCall  *)
(* tells that the call found the stream ended and drained (endReadable).   *)
(***************************************************************************)
howMuchToRead(n, length, ended) ==
  IF n <= length THEN n ELSE IF ended THEN length ELSE 0

ReadResult(n, m, buffer, ended) ==
  [ isNull  |-> m = 0,
    chunk   |-> RTake(buffer, m),
    buffer  |-> RDrop(buffer, m),
    endCall |-> ended /\ m # n /\ RDrop(buffer, m) = << >> ]

StdinRead(n, buffer, ended) ==
  ReadResult(n, howMuchToRead(n, RLen(buffer), ended), buffer, ended)

\* chunk.copy(lengthBuffer, bytesRead)
CopyInto(lengthBuffer, bytesRead, bytes) ==
  [ i \in 1 .. PREFIX_BYTES |->
      IF i > bytesRead /\ i <= bytesRead + Len(bytes)
      THEN bytes[i - bytesRead] ELSE lengthBuffer[i] ]

\* the length test of readMessage
LengthAccepted(messageLength) ==
  messageLength > 0 /\ messageLength < MAX_MESSAGE

NewListener ==
  [ bytesRead |-> 0, lengthBuffer |-> << 0, 0, 0, 0 >>, current |-> TRUE ]

(***************************************************************************)
(* One call of a readMessage listener (onReadable).  settle is "none",     *)
(* "resolve" (with message) or "reject"; removed tells that the listener   *)
(* took itself off the stream.                                             *)
(***************************************************************************)
\* the first half: the length prefix
PrefixRead(l, r) ==
  [ listener |-> IF r.isNull THEN l
                 ELSE [ l EXCEPT
                          !.lengthBuffer =
                             CopyInto(l.lengthBuffer, l.bytesRead, Unrle(r.chunk)),
                          !.bytesRead = l.bytesRead + RLen(r.chunk) ],
    buffer |-> r.buffer, endCall |-> r.endCall ]

ReadPrefix(l, buffer, ended) ==
  IF l.bytesRead < PREFIX_BYTES
  THEN PrefixRead(l, StdinRead(PREFIX_BYTES - l.bytesRead, buffer, ended))
  ELSE [ listener |-> l, buffer |-> buffer, endCall |-> FALSE ]

Unsettled(l, buffer, endCall) ==
  [ listener |-> l, buffer |-> buffer, settle |-> "none", message |-> SyntaxError,
    removed |-> FALSE, endCall |-> endCall ]

\* JSON.parse(messageBuffer.toString('utf8')) returned message or threw
Settle(l, message, buffer, endCall) ==
  IF message = SyntaxError
  THEN [ listener |-> l, buffer |-> buffer, settle |-> "reject",
         message |-> SyntaxError, removed |-> FALSE, endCall |-> endCall ]
  ELSE [ listener |-> l, buffer |-> buffer, settle |-> "resolve",
         message |-> message, removed |-> TRUE, endCall |-> endCall ]

BodyRead(l, messageLength, r, endCall) ==
  IF ~r.isNull /\ RLen(r.chunk) = messageLength
  THEN Settle(l, JSONparse(r.chunk), r.buffer, endCall \/ r.endCall)
  ELSE Unsettled(l, r.buffer, endCall \/ r.endCall)

\* the second half: the body, once the four prefix bytes are there
ReadBody(l, messageLength, buffer, ended, endCall) ==
  IF l.bytesRead = PREFIX_BYTES /\ LengthAccepted(messageLength)
  THEN BodyRead(l, messageLength, StdinRead(messageLength, buffer, ended), endCall)
  ELSE Unsettled(l, buffer, endCall)

AfterPrefix(p, ended) ==
  ReadBody(p.listener, readUInt32LE(p.listener.lengthBuffer), p.buffer, ended, p.endCall)

onReadable(l, buffer, ended) == AfterPrefix(ReadPrefix(l, buffer, ended), ended)

(***************************************************************************)
(* stdin emits 'readable': every attached listener is called once, in the  *)
(* order of attachment, each on the buffer the earlier ones left.  Only    *)
(* the listener of the promise main awaits (current) settles it.           *)
(***************************************************************************)
Accumulate(acc, current, r) ==
  [ buffer    |-> r.buffer,
    listeners |-> IF r.removed THEN acc.listeners ELSE Append(acc.listeners, r.listener),
    settle    |-> IF current /\ acc.settle = "none" THEN r.settle ELSE acc.settle,
    message   |-> IF current /\ acc.settle = "none" THEN r.message ELSE acc.message,
    endCall   |-> acc.endCall \/ r.endCall ]

RECURSIVE EmitReadable(_, _, _)
EmitReadable(ls, ended, acc) ==
  IF ls = << >> THEN acc
  ELSE EmitReadable(Tail(ls), ended,
         Accumulate(acc, ls[1].current, onReadable(ls[1], acc.buffer, ended)))

EmitStart(buffer) ==
  [ buffer |-> buffer, listeners |-> << >>, settle |-> "none",
    message |-> SyntaxError, endCall |-> FALSE ]

NoResult == [ kind |-> "none", value |-> SyntaxError ]

(***************************************************************************)
(* One turn of the event loop on stdin while main awaits readMessage():    *)
(* the 'readable' emission, then 'end' if a read found the stream ended    *)
(* and drained; the 'end' listener resolves the awaited promise with null. *)
(***************************************************************************)
Emitted(e, ended, endNow) ==
  /\ listeners' = e.listeners
  /\ stdin' = [ buffer |-> e.buffer, ended |-> ended,
                endEmitted |-> stdin.endEmitted \/ endNow,
                readableListening |-> Len(e.listeners) > 0,
                scheduled |-> "none" ]
  /\ result' = IF e.settle = "resolve" THEN [ kind |-> "value", value |-> e.message ]
               ELSE IF e.settle = "reject" THEN [ kind |-> "error", value |-> SyntaxError ]
               ELSE IF endNow THEN [ kind |-> "value", value |-> JNull ]
               ELSE NoResult
  /\ pc' = IF e.settle = "none" /\ ~endNow THEN "awaiting" ELSE "settled"

EndAfter(e) == e.endCall /\ ~stdin.endEmitted /\ e.buffer = << >>

AfterEmit(e, ended) == Emitted(e, ended, EndAfter(e))

StdinTurn(buffer, ended) ==
  AfterEmit(EmitReadable(listeners, ended, EmitStart(buffer)), ended)

\* The end of a pipe: the stream emits 'readable' and then calls read(0)
\* itself, which ends the stream when the listeners have left nothing
\* buffered, whether or not they have called read().
AfterEof(e) == Emitted(e, TRUE, ~stdin.endEmitted /\ e.buffer = << >>)

EofTurn(buffer) == AfterEof(EmitReadable(listeners, TRUE, EmitStart(buffer)))

(***************************************************************************)
(* readMessage(): a new promise with a new 'readable' listener (and a new  *)
(* 'end' listener).  Listeners left by earlier calls stay attached.  The   *)
(* first 'readable' listener of a stream makes it schedule an emission     *)
(* when data is buffered, or a read(0) when the stream has ended.          *)
(***************************************************************************)
\* a readMessage that starts from an empty buffer: what the stream had
\* buffered behind the previous frame is dropped
readMessageFlushing(st, ls) ==
  [ listeners |-> [ i \in 1 .. Len(ls) |-> [ ls[i] EXCEPT !.current = FALSE ] ]
                    \o << NewListener >>,
    stdin |-> [ st EXCEPT !.buffer = << >>,
                          !.readableListening = TRUE,
                          !.scheduled = IF st.ended THEN "end" ELSE "none" ] ]

readMessage(st, ls) ==
  LET first == ~st.endEmitted /\ ~st.readableListening
  IN  [ listeners |-> [ i \in 1 .. Len(ls) |-> [ ls[i] EXCEPT !.current = FALSE ] ]
                        \o << NewListener >>,
        stdin |-> IF first
                  THEN [ st EXCEPT !.readableListening = TRUE,
                                   !.scheduled =
                                      IF st.buffer # << >> THEN "readable"
                                      ELSE IF st.ended THEN "end" ELSE "none" ]
                  ELSE st ]

(***************************************************************************)
(* The file system and the tools the helper looks for.  Disks is the set   *)
(* of environments a run can start in; the helper only reads disk.         *)
(*   webExt, firefox  : findWebExt() / getFirefoxPath() find an executable *)
(*   items            : the directory listing of the folder FOLDER         *)
(*   configWrite      : how fs.writeFileSync(CONFIG_FILE, ...) ends: "done",*)
(*                      "refused" (it throws before the file is touched) or *)
(*                      "cut" (it throws after the file was truncated and   *)
(*                      part of the text written, as on a full disk)        *)
(*   spawn            : how spawn(webExtPath, ...) ends: "ok"; "throws" (it *)
(*                      throws, as Node does for an errno such as EINVAL);  *)
(*                      "errorEvent" (it returns a handle that emits        *)
(*                      'error' in the next tick, as Node does for ENOENT   *)
(*                      or EACCES)                                          *)
(* Disks holds the environments in which a save is refused at worst and    *)
(* spawn works; ConfigDisks and SpawnDisks hold the other outcomes.        *)
(* An item is a subdirectory (with a manifest that is "valid", "corrupt"   *)
(* or "none", and a tree that copyDirSync can or cannot copy) or a file.   *)
(***************************************************************************)
FOLDER == "/ext"

Item(name, isDirectory, manifest, manifestName, copyOk) ==
  [ name |-> name, isDirectory |-> isDirectory, manifest |-> manifest,
    manifestName |-> manifestName, copyOk |-> copyOk,
    version |-> "", description |-> "", manifestVersion |-> 0 ]

\* the other members of a manifest the scan reads: version, description and
\* manifest_version; "" and 0 stand for a member that is missing or falsy
Manifest(item, version, description, manifestVersion) ==
  [ item EXCEPT !.version = version, !.description = description,
                !.manifestVersion = manifestVersion ]

ItemA == Manifest(Item("a", TRUE, "valid", "A", TRUE), "1.0", "", 0)
ItemFile == Item("notes.txt", FALSE, "none", "", TRUE)
ItemC == Item("c", TRUE, "none", "", TRUE)
ItemsB ==
  { Manifest(Item("b", TRUE, "valid", "", TRUE), "", "about b", 3),  \* no name
    Manifest(Item("b", TRUE, "valid", "B", FALSE), "", "café", 0),
                                               \* a tree that cannot be copied
    Item("b", TRUE, "corrupt", "", TRUE) }

Disks ==
  { d \in [ webExt : BOOLEAN, firefox : BOOLEAN,
            items : { << b, ItemFile, ItemA, ItemC >> : b \in ItemsB },
            configWrite : { "done", "refused" },
            spawn : { "ok" },
            killThrows : BOOLEAN ] : (d.webExt => d.firefox) /\ (d.killThrows => d.webExt) }

DefaultConfig ==
  [ extensionFolder |-> "", firefoxPath |-> "", watchEnabled |-> FALSE ]

\* The config file: present tells that it exists; content is "object" (the
\* text of a JSON object, whose members are data), "truncated" (a text that
\* does not parse) or "unreadable" (fs.readFileSync throws); data is the
\* object whose text, or the beginning of whose text, the file holds.
ConfigFile(present, content, data) ==
  [ present |-> present, content |-> content, data |-> data ]

ConfigFiles ==
  { ConfigFile(FALSE, "object", DefaultConfig),
    ConfigFile(TRUE, "object", [ DefaultConfig EXCEPT !.extensionFolder = FOLDER ]) }

\* the file install.js creates, one that names the folder only, an empty
\* object, and files that cannot be read or parsed
PersistedFiles ==
  ConfigFiles \cup
  { ConfigFile(TRUE, "object", [ extensionFolder |-> "", autoStart |-> FALSE ]),
    ConfigFile(TRUE, "object", [ extensionFolder |-> FOLDER ]),
    ConfigFile(TRUE, "object", [ watchEnabled |-> TRUE ]),
    ConfigFile(TRUE, "truncated", [ extensionFolder |-> FOLDER ]),
    ConfigFile(TRUE, "unreadable", [ extensionFolder |-> FOLDER ]) }

\* path.join(folder, name)
PathJoin(folder, name) == folder \o "/" \o name

\* the listing entry behind an absolute path, if there is one
ItemsAt(d, p) ==
  { i \in 1 .. Len(d.items) : PathJoin(FOLDER, d.items[i].name) = p }
IsDirectory(d, p) ==
  \E i \in ItemsAt(d, p) : d.items[i].isDirectory
ItemAt(d, p) == d.items[CHOOSE i \in ItemsAt(d, p) : TRUE]

\* JSON.parse(fs.readFileSync(path.join(p, 'manifest.json'))) returns
ManifestReadable(d, p) ==
  p # Absent /\ IsDirectory(d, p) /\ ItemAt(d, p).manifest = "valid"

(***************************************************************************)
(* loadConfig / saveConfig                                                 *)
(***************************************************************************)
\* { ...a, ...b }
Spread(a, b) ==
  [ k \in DOMAIN a \cup DOMAIN b |-> IF k \in DOMAIN b THEN b[k] ELSE a[k] ]

\* a load in which the built-in value wins over the persisted one
loadConfigDefaultsFirst(current, file) ==
  IF file.present /\ file.content = "object" THEN Spread(file.data, current)
  ELSE current

\* current is the config of the module at the call, the built-in defaults
loadConfig(current, file) ==
  IF file.present /\ file.content = "object" THEN Spread(current, file.data)
  ELSE current

\* the object that the text JSON.stringify(config, null, 2) denotes: a
\* member whose value is undefined is left out
Stringified(c) ==
  IF c.extensionFolder = Absent
  THEN [ k \in DOMAIN c \ { "extensionFolder" } |-> c[k] ]
  ELSE c

\* fs.writeFileSync writes in place: it truncates the file and then writes
\* the text
saveConfig(h, d) ==
  CASE d.configWrite = "done" ->
         [ h EXCEPT !.configFile = ConfigFile(TRUE, "object", Stringified(h.config)) ]
    [] d.configWrite = "cut" ->
         [ h EXCEPT !.configFile = ConfigFile(TRUE, "truncated", Stringified(h.config)),
                    !.logged = Append(@, "Failed to save config:") ]
    [] OTHER -> [ h EXCEPT !.logged = Append(@, "Failed to save config:") ]

(***************************************************************************)
(* scanExtensionsFolder: the descriptors of the configured folder, in      *)
(* directory-listing order.                                                *)
(***************************************************************************)
\* a descriptor that passes on what the manifest holds, without defaults
DescriptorWithoutDefaults(folder, item) ==
  [ name |-> item.manifestName,
    version |-> item.version,
    description |-> item.description,
    path |-> PathJoin(folder, item.name),
    folder |-> item.name,
    manifestVersion |-> item.manifestVersion ]

Descriptor(folder, item) ==
  [ name |-> IF item.manifestName # "" THEN item.manifestName ELSE item.name,
    version |-> IF item.version # "" THEN item.version ELSE "0.0.0",
    description |-> item.description,
    path |-> PathJoin(folder, item.name),
    folder |-> item.name,
    manifestVersion |-> IF item.manifestVersion # 0 THEN item.manifestVersion ELSE 2 ]

RECURSIVE ScanItems(_, _)
\* a scan that lists a directory although its manifest does not parse
ScanItemsKeepingCorrupt(folder, items) ==
  IF items = << >> THEN << >>
  ELSE IF items[1].isDirectory /\ items[1].manifest # "none"
  THEN << Descriptor(folder, items[1]) >> \o ScanItems(folder, Tail(items))
  ELSE ScanItems(folder, Tail(items))

\* a scan without the inner try/catch: the first manifest that does not
\* parse ends the loop in the outer catch
ScanItemsAborting(folder, items) ==
  IF items = << >> THEN << >>
  ELSE IF items[1].isDirectory /\ items[1].manifest = "corrupt" THEN << >>
  ELSE IF items[1].isDirectory /\ items[1].manifest = "valid"
  THEN << Descriptor(folder, items[1]) >> \o ScanItems(folder, Tail(items))
  ELSE ScanItems(folder, Tail(items))

ScanItems(folder, items) ==
  IF items = << >> THEN << >>
  ELSE LET item == items[1]
           rest == ScanItems(folder, Tail(items))
       IN  IF item.isDirectory /\ item.manifest = "valid"
           THEN << Descriptor(folder, item) >> \o rest
           ELSE rest

\* a scan that lists the folder FOLDER when the configured one is unset or
\* does not exist
scanExtensionsFolderFallback(h, d) == ScanItems(FOLDER, d.items)

scanExtensionsFolder(h, d) ==
  LET folder == h.config.extensionFolder
  IN  IF folder = Absent \/ folder = "" \/ folder # FOLDER THEN << >>
      ELSE ScanItems(folder, d.items)

\* the helper after scanExtensionsFolder() has logged a diagnostic for each
\* manifest that does not parse
Scanned(h, d) ==
  LET folder == h.config.extensionFolder
      invalid == SelectSeq(d.items, LAMBDA item : item.isDirectory /\ item.manifest = "corrupt")
  IN  IF folder = Absent \/ folder = "" \/ folder # FOLDER THEN h
      ELSE [ h EXCEPT !.logged =
               @ \o [ i \in 1 .. Len(invalid) |->
                        "Invalid manifest in " \o PathJoin(folder, invalid[i].name) \o ":" ] ]

(***************************************************************************)
(* The Map loadedExtensions, kept as its entries in insertion order.       *)
(***************************************************************************)
MapHas(map, key) == \E i \in 1 .. Len(map) : map[i].path = key
MapGet(map, key) == map[CHOOSE i \in 1 .. Len(map) : map[i].path = key]
MapSet(map, entry) ==
  IF MapHas(map, entry.path)
  THEN [ i \in 1 .. Len(map) |-> IF map[i].path = entry.path THEN entry ELSE map[i] ]
  ELSE Append(map, entry)
\* a delete that removes the newest entry, whatever its key
MapDeleteNewest(map, key) == SubSeq(map, 1, Len(map) - 1)

MapDelete(map, key) == SelectSeq(map, LAMBDA e : e.path # key)
MapKeys(map) == { map[i].path : i \in 1 .. Len(map) }

(***************************************************************************)
(* loadExtensionViaRDP: web-ext when findWebExt() finds it, otherwise a    *)
(* temporary profile for the Firefox that getFirefoxPath() finds.  The     *)
(* promise resolves (ok, with method) or rejects (with error).             *)
(***************************************************************************)
WebExtLoad(extensionPath, h, proc, killThrows) ==
  [ h |-> [ h EXCEPT
              !.children = Append(@, [ path |-> extensionPath, killed |-> FALSE,
                                       killThrows |-> killThrows ]),
              !.loadedExtensions =
                 MapSet(@, [ path |-> extensionPath, process |-> proc,
                             method |-> "web-ext" ]) ],
    ok |-> TRUE, method |-> "web-ext", profilePath |-> Absent, error |-> "" ]

\* path.join(os.tmpdir(), `rapunzel-profile-${Date.now()}`)
tempProfile(now) == "/tmp/rapunzel-profile-" \o ToString(now)

\* Date.now(): the clock has advanced by the next of the pending ticks
DateNow(h) == h.clock + Head(h.ticks)

\* a preparation that resolves although copyDirSync threw
ProfileLoadUnchecked(extensionPath, h, copied) ==
  [ h |-> [ h EXCEPT !.profiles =
                        Append(@, [ source |-> extensionPath, complete |-> copied,
                                    path |-> tempProfile(DateNow(h)) ]),
                     !.clock = DateNow(h),
                     !.ticks = Tail(@) ],
    ok |-> TRUE, method |-> "profile", profilePath |-> tempProfile(DateNow(h)),
    error |-> "" ]

\* a preparation that also enters the prepared profile in the registry
ProfileLoadRecorded(extensionPath, h, copied) ==
  [ h |-> [ h EXCEPT !.profiles =
                        Append(@, [ source |-> extensionPath, complete |-> copied,
                                    path |-> tempProfile(DateNow(h)) ]),
                     !.loadedExtensions =
                        IF copied
                        THEN MapSet(@, [ path |-> extensionPath, process |-> 0,
                                         method |-> "profile" ])
                        ELSE @,
                     !.clock = DateNow(h),
                     !.ticks = Tail(@) ],
    ok |-> copied,
    method |-> IF copied THEN "profile" ELSE "",
    profilePath |-> IF copied THEN tempProfile(DateNow(h)) ELSE Absent,
    error |-> IF copied THEN "" ELSE "copy failed" ]

ProfileLoad(extensionPath, h, copied) ==
  [ h |-> [ h EXCEPT !.profiles =
                        Append(@, [ source |-> extensionPath, complete |-> copied,
                                    path |-> tempProfile(DateNow(h)) ]),
                     !.clock = DateNow(h),
                     !.ticks = Tail(@) ],
    ok |-> copied,
    method |-> IF copied THEN "profile" ELSE "",
    profilePath |-> IF copied THEN tempProfile(DateNow(h)) ELSE Absent,
    error |-> IF copied THEN "" ELSE "copy failed" ]

\* copyDirSync(extensionPath, extDest) returns
copyDirSync(d, extensionPath) ==
  IsDirectory(d, extensionPath) /\ ItemAt(d, extensionPath).copyOk

\* a load that prepares a profile whenever a browser is found and falls
\* back to web-ext only without one
loadExtensionViaRDPProfileFirst(extensionPath, h, d) ==
  IF d.firefox THEN ProfileLoad(extensionPath, h, copyDirSync(d, extensionPath))
  ELSE IF d.webExt THEN WebExtLoad(extensionPath, h, Len(h.children) + 1, d.killThrows)
  ELSE [ h |-> h, ok |-> FALSE, method |-> "", profilePath |-> Absent,
         error |-> "Firefox not found" ]

\* r is the load through web-ext with a spawn that worked.  A spawn that
\* throws rejects the promise before anything is recorded.  A handle that
\* will emit 'error' is recorded like any other; nothing listens for the
\* event, so when it is emitted, in the tick after the handler has run to
\* its end, it is an uncaught exception and the process exits (doomed).
Spawned(r, h, spawn) ==
  CASE spawn = "ok" -> r
    [] spawn = "throws" ->
         [ h |-> h, ok |-> FALSE, method |-> "", profilePath |-> Absent,
           error |-> "spawn failed" ]
    [] spawn = "errorEvent" -> [ r EXCEPT !.h.doomed = TRUE ]

loadExtensionViaRDP(extensionPath, h, d) ==
  IF d.webExt
  THEN Spawned(WebExtLoad(extensionPath, h, Len(h.children) + 1, d.killThrows), h, d.spawn)
  ELSE IF ~d.firefox
  THEN [ h |-> h, ok |-> FALSE, method |-> "", profilePath |-> Absent,
         error |-> "Firefox not found" ]
  ELSE ProfileLoad(extensionPath, h, copyDirSync(d, extensionPath))

(***************************************************************************)
(* unloadExtension                                                         *)
(***************************************************************************)
\* an unload without the try/catch around loaded.process.kill(): the error
\* of kill() leaves unloadExtension before the record is deleted
UnloadedUncaught(extensionPath, h, loaded) ==
  IF h.children[loaded.process].killThrows
  THEN [ h |-> [ h EXCEPT !.children = [ @ EXCEPT ![loaded.process].killed = TRUE ] ],
         success |-> FALSE, error |-> "kill failed" ]
  ELSE [ h |-> [ h EXCEPT
                   !.children = [ @ EXCEPT ![loaded.process].killed = TRUE ],
                   !.loadedExtensions = MapDelete(@, extensionPath) ],
         success |-> TRUE, error |-> "" ]

\* kill() is called on the recorded handle (killed); whether it throws
\* (killThrows) makes no difference, the catch block is empty
Unloaded(extensionPath, h, loaded) ==
  [ h |-> [ h EXCEPT
              !.children = [ @ EXCEPT ![loaded.process].killed = TRUE ],
              !.loadedExtensions = MapDelete(@, extensionPath) ],
    success |-> TRUE, error |-> "" ]

\* an unload that reports success whether or not there is a record
unloadExtensionUnchecked(extensionPath, h) ==
  IF MapHas(h.loadedExtensions, extensionPath)
  THEN Unloaded(extensionPath, h, MapGet(h.loadedExtensions, extensionPath))
  ELSE [ h |-> h, success |-> TRUE, error |-> "" ]

unloadExtension(extensionPath, h) ==
  IF MapHas(h.loadedExtensions, extensionPath)
  THEN Unloaded(extensionPath, h, MapGet(h.loadedExtensions, extensionPath))
  ELSE [ h |-> h, success |-> FALSE, error |-> "Extension not found in loaded list" ]

(***************************************************************************)
(* Iteration over the Map while entries are deleted (unload_all): the      *)
(* iterator walks the entry list the Map had, entries deleted meanwhile    *)
(* are skipped, nothing is visited twice.  MapEntryAfter is the position   *)
(* of the next entry to visit at or after index, 0 when there is none.     *)
(***************************************************************************)
\* an iteration by position over a list that shrinks under it: after the
\* first deletion the entry that moved into the freed slot is passed over
MapEntryAfterShifted(entries, live, index) ==
  LET next == { j \in (IF index = 1 THEN 1 ELSE index + 1) .. Len(entries) :
                  MapHas(live, entries[j].path) }
  IN  IF next = { } THEN 0 ELSE CHOOSE j \in next : \A k \in next : j <= k

MapEntryAfter(entries, live, index) ==
  LET next == { j \in index .. Len(entries) : MapHas(live, entries[j].path) }
  IN  IF next = { } THEN 0 ELSE CHOOSE j \in next : \A k \in next : j <= k

UnloadEntry(extPath, r) ==
  [ path |-> extPath, success |-> r.success, error |-> r.error ]

RECURSIVE UnloadAllLoop(_, _, _, _)
UnloadAllFrom(entries, j, h, unloadResults) ==
  IF j = 0 THEN [ h |-> h, results |-> unloadResults ]
  ELSE UnloadAllLoop(entries, j + 1, unloadExtension(entries[j].path, h), unloadResults)

UnloadAllLoop(entries, index, r, unloadResults) ==
  UnloadAllFrom(entries, MapEntryAfter(entries, r.h.loadedExtensions, index), r.h,
                Append(unloadResults, UnloadEntry(entries[index - 1].path, r)))

\* for (const [extPath] of loadedExtensions) { unloadExtension(extPath) ... }
UnloadAll(h) ==
  UnloadAllFrom(h.loadedExtensions, MapEntryAfter(h.loadedExtensions, h.loadedExtensions, 1),
                h, << >>)

LoadEntry(ext, r) == [ name |-> ext.name, success |-> r.ok, error |-> r.error ]

\* for (const ext of allExtensions) { try { await loadExtensionViaRDP(ext.path) ... }
RECURSIVE LoadAllLoop(_, _, _, _)
\* a loop without the try/catch around each item: the first failure ends it
LoadAllNextAborting(allExtensions, r, d, results) ==
  IF r.ok
  THEN LoadAllLoop(Tail(allExtensions), r, d, Append(results, LoadEntry(allExtensions[1], r)))
  ELSE [ h |-> r.h, results |-> Append(results, LoadEntry(allExtensions[1], r)) ]

LoadAllNext(allExtensions, r, d, results) ==
  LoadAllLoop(Tail(allExtensions), r, d, Append(results, LoadEntry(allExtensions[1], r)))

LoadAllLoop(allExtensions, r, d, results) ==
  IF allExtensions = << >> THEN [ h |-> r.h, results |-> results ]
  ELSE LoadAllNext(allExtensions, loadExtensionViaRDP(allExtensions[1].path, r.h, d),
                   d, results)

\* results.filter(r => r.success).length, results.filter(r => !r.success).length
CountSuccess(results, success) ==
  Cardinality({ i \in 1 .. Len(results) : results[i].success = success })

(***************************************************************************)
(* handleMessage: the switch on message.action.  The result is the helper  *)
(* state after the handler and the messages it passed to sendMessage, in   *)
(* order.                                                                  *)
(***************************************************************************)
ExtensionsList(h, d) ==
  [ type |-> "extensions_list", extensions |-> scanExtensionsFolder(h, d),
    folder |-> h.config.extensionFolder ]

\* a status that counts every process spawned so far instead of the records
StatusCaseCountingSpawns(h, d) ==
  [ h |-> h,
    sends |-> << [ type |-> "status", firefoxFound |-> d.firefox,
                   extensionFolder |-> h.config.extensionFolder,
                   loadedCount |-> Len(h.children) ] >> ]

StatusCase(h, d) ==
  [ h |-> h,
    sends |-> << [ type |-> "status", firefoxFound |-> d.firefox,
                   extensionFolder |-> h.config.extensionFolder,
                   loadedCount |-> Len(h.loadedExtensions) ] >> ]

\* a scan that reads the config file again before it lists the folder
ScanCaseReloading(h, d) ==
  [ h |-> [ h EXCEPT !.config = loadConfig(DefaultConfig, h.configFile) ],
    sends |-> << ExtensionsList([ h EXCEPT !.config = loadConfig(DefaultConfig, h.configFile) ], d) >> ]

ScanCase(h, d) == [ h |-> Scanned(h, d), sends |-> << ExtensionsList(h, d) >> ]

\* a set_folder that reports whether the config was persisted
SetFolderCaseReportingSave(h, d, path) ==
  [ h |-> h,
    sends |-> << [ type |-> "folder_set", success |-> d.configWrite = "done",
                   path |-> path ],
                 ExtensionsList(h, d) >> ]

SetFolderCase(h, d, path) ==
  [ h |-> Scanned(h, d),
    sends |-> << [ type |-> "folder_set", success |-> TRUE, path |-> path ],
                 ExtensionsList(h, d) >> ]

\* the load case once loadExtensionViaRDP has settled with r; ok tells that
\* it resolved and the manifest of message.path was read and parsed
LoadCase(r, path, ok) ==
  [ h |-> r.h,
    sends |-> << [ type |-> "load_result", success |-> ok, path |-> path,
                   method |-> IF ok THEN r.method ELSE "",
                   profilePath |-> IF ok THEN r.profilePath ELSE Absent,
                   error |-> IF ok THEN ""
                             ELSE IF r.ok THEN "manifest unreadable" ELSE r.error ] >> ]

LoadAllCase(r) ==
  [ h |-> r.h,
    sends |-> << [ type |-> "load_all_result", results |-> r.results,
                   totalLoaded |-> CountSuccess(r.results, TRUE),
                   totalFailed |-> CountSuccess(r.results, FALSE) ] >> ]

UnloadCase(r, path) ==
  [ h |-> r.h,
    sends |-> << [ type |-> "unload_result", success |-> r.success,
                   error |-> r.error, path |-> path ] >> ]

UnloadAllCase(r) ==
  [ h |-> r.h, sends |-> << [ type |-> "unload_all_result", results |-> r.results ] >> ]

DefaultCase(h) ==
  [ h |-> h, sends |-> << [ type |-> "error", error |-> "Unknown action" ] >> ]

Switch(action, path, h, d) ==
  CASE action = "status" -> StatusCase(h, d)
    [] action = "scan" -> ScanCase(h, d)
    [] action = "set_folder" ->
         SetFolderCase(saveConfig([ h EXCEPT !.config.extensionFolder = path ], d), d, path)
    [] action = "load" ->
         LoadCase(loadExtensionViaRDP(path, h, d), path,
                  loadExtensionViaRDP(path, h, d).ok /\ ManifestReadable(d, path))
    [] action = "load_all" ->
         LoadAllCase(LoadAllLoop(scanExtensionsFolder(h, d), [ h |-> Scanned(h, d) ],
                                 d, << >>))
    [] action = "unload" -> UnloadCase(unloadExtension(path, h), path)
    [] action = "unload_all" -> UnloadAllCase(UnloadAll(h))
    [] OTHER -> DefaultCase(h)

handleMessage(message, h, d) ==
  IF message.t = "obj" THEN Switch(message.action, message.path, h, d)
  ELSE Switch(Absent, Absent, h, d)

(***************************************************************************)
(* The frames the browser side writes.                                     *)
(***************************************************************************)
RequestMenu ==
  { JObj(a, Absent) : a \in { "status", "scan", "load_all", "unload_all", "bogus" } }
    \cup { JObj("set_folder", p) : p \in { FOLDER, "/nowhere" } }
    \cup { JObj(a, p) : a \in { "load", "unload" }, p \in { "/ext/a", "/ext/b" } }

RequestFrame == [ m \in RequestMenu |-> sendMessage(m) ]

\* a frame of the given body bytes with the matching length prefix
FrameOfText(text) == RCat(Rle(writeUInt32LE(RLen(text))), text)

\* a JSON string of n bytes in all: "aaa...a"
StringOfSize(n) == JStr(<< Run(97, n - 2) >>)

TxtTruncated == << Run(123, 1) >>                              \* {
TxtLongTruncated == Rle(TxtActionKey \o Ascii("status") \o << 34 >>)  \* {"action":"status"

ValueFrame(kind, v) == [ kind |-> kind, value |-> v, bytes |-> sendMessage(v) ]
BadFrame(kind, text) == [ kind |-> kind, value |-> SyntaxError, bytes |-> FrameOfText(text) ]

WireMenu ==
  { ValueFrame("request", JObj("status", Absent)),
    ValueFrame("request", JObj("load", "/ext/a")),
    ValueFrame("request", JObj("set_folder", Absent)),
    ValueFrame("scalar", JNum(<< Run(53, 1) >>)),
    ValueFrame("null", JNull),
    ValueFrame("below", StringOfSize(MAX_MESSAGE - 1)),
    ValueFrame("exact", StringOfSize(MAX_MESSAGE)),
    ValueFrame("tooLarge", StringOfSize(MAX_MESSAGE + 1)),
    BadFrame("empty", << >>),
    BadFrame("malformed", TxtTruncated),
    BadFrame("malformed", TxtLongTruncated) }

Helper ==
  [ config |-> config, configFile |-> configFile,
    loadedExtensions |-> loadedExtensions, children |-> children,
    profiles |-> profiles, clock |-> clock, ticks |-> << >>, doomed |-> FALSE,
    logged |-> << >> ]

\* by how much Date.now() advances from one reading to the next within a
\* handler: not at all (the same millisecond) or by one
Ticks == [ 1 .. 2 -> 0 .. 1 ]

SetHelper(h) ==
  /\ config' = h.config
  /\ configFile' = h.configFile
  /\ loadedExtensions' = h.loadedExtensions
  /\ children' = h.children
  /\ profiles' = h.profiles
  /\ clock' = h.clock

\* what the responses of one turn say about which paths are loaded
RECURSIVE Reported(_, _)
Reported(paths, sends) ==
  IF sends = << >> THEN paths
  ELSE LET m == sends[1]
           now == IF m.type = "load_result" /\ m.success THEN paths \cup { m.path }
                  ELSE IF m.type = "unload_result" /\ m.success THEN paths \ { m.path }
                  ELSE IF m.type = "unload_all_result"
                       THEN paths \ { m.results[i].path : i \in
                                        { j \in 1 .. Len(m.results) : m.results[j].success } }
                  ELSE paths
       IN  Reported(now, Tail(sends))

(***************************************************************************)
(* background.js, handleNativeMessage: what a frame received from the      *)
(* helper does to the array loadedExtensions of the background script.     *)
(* The array is kept as the paths of its entries.                          *)
(***************************************************************************)
\* loadedExtensions = message.extensions || []
handleExtensionsList(entries, message) ==
  [ i \in 1 .. Len(message.extensions) |-> message.extensions[i].path ]

handleLoadResult(entries, message) ==
  IF message.success /\ ~\E i \in 1 .. Len(entries) : entries[i] = message.path
  THEN Append(entries, message.path)
  ELSE entries

handleUnloadResult(entries, message) ==
  IF message.success THEN SelectSeq(entries, LAMBDA e : e # message.path)
  ELSE entries

handleNativeMessage(entries, message) ==
  CASE message.type = "extensions_list" -> handleExtensionsList(entries, message)
    [] message.type = "load_result" -> handleLoadResult(entries, message)
    [] message.type = "unload_result" -> handleUnloadResult(entries, message)
    [] OTHER -> entries

\* the frames of one turn, received in the order they were written
RECURSIVE Received(_, _)
Received(entries, sends) ==
  IF sends = << >> THEN entries
  ELSE Received(handleNativeMessage(entries, sends[1]), Tail(sends))

\* main consumes the settled promise: the bookkeeping of one turn, in which
\* the diagnostics were logged and the responses sent
ConsumeLogged(diagnostics, sends) ==
  /\ out' = sends
  /\ handled' = result
  /\ result' = NoResult
  /\ turn' = turn + 1
  /\ answered' = IF sends = << >> THEN answered ELSE answered + 1
  /\ reported' = Reported(reported, sends)
  /\ mirror' = Received(mirror, sends)
  /\ stdio' = Written([ stdout |-> << >>, stderr |-> << >> ], diagnostics, sends)

Consume(sends) == ConsumeLogged(<< >>, sends)

Handled(r) == SetHelper(r.h) /\ ConsumeLogged(r.h.logged, r.sends)

\* main after the handler: the next readMessage(), unless the process exits
\* on the uncaught 'error' of a child before any input is taken
Continued(r) ==
  /\ Handled(r)
  /\ pc' = IF r.h.doomed THEN "crashed" ELSE "awaiting"

NextRead(rm) == listeners' = rm.listeners /\ stdin' = rm.stdin

(***************************************************************************)
(* Init: the process has been started, main() has not run yet.             *)
(***************************************************************************)
\* the state of the process itself
Fresh ==
  /\ pipe = << >>
  /\ portClosed = FALSE
  /\ stdin = [ buffer |-> << >>, ended |-> FALSE, endEmitted |-> FALSE,
               readableListening |-> FALSE, scheduled |-> "none" ]
  /\ listeners = << >>
  /\ pc = "start"
  /\ result = NoResult
  /\ config = DefaultConfig
  /\ loadedExtensions = << >>
  /\ children = << >>
  /\ profiles = << >>
  /\ clock = 0
  /\ out = << >>
  /\ handled = NoResult
  /\ turn = 0
  /\ answered = 0
  /\ nsent = 0
  /\ kindsSent = { }
  /\ firstFrame = [ kind |-> "none", value |-> SyntaxError ]
  /\ reported = { }
  /\ mirror = << >>
  /\ stdio = [ stdout |-> << >>, stderr |-> << >> ]
  /\ nativePort = 0
  /\ isConnected = FALSE
  /\ ports = << >>
  /\ timers = 0
  /\ splits = 0

Init ==
  /\ Fresh
  /\ configFile \in ConfigFiles
  /\ disk \in Disks

\* main(): loadConfig(), then the first readMessage()
Startup ==
  /\ pc = "start"
  /\ config' = loadConfig(config, configFile)
  /\ stdio' = IF configFile.present /\ configFile.content # "object"
              THEN logError(stdio, "Failed to load config:")
              ELSE stdio
  /\ NextRead(readMessage(stdin, listeners))
  /\ pc' = "awaiting"
  /\ UNCHANGED << pipe, portClosed, result, configFile, loadedExtensions, children,
                  profiles, clock, disk, out, handled, turn, answered, reported,
                  mirror, browserVars, splits >>

\* the browser side posts a request, once the previous one has been taken up
SendRequest ==
  /\ ~portClosed
  /\ nsent < MaxFrames
  /\ nsent = turn /\ pc = "awaiting"
  /\ \E m \in RequestMenu : pipe' = RCat(pipe, RequestFrame[m])
  /\ firstFrame' = firstFrame
  /\ nsent' = nsent + 1
  /\ kindsSent' = kindsSent \cup { "request" }
  /\ UNCHANGED << portClosed, stdin, listeners, pc, result, helperVars, disk,
                  mainVars, nativePort, isConnected, ports, timers, splits >>

\* the browser side (or any writer of the pipe) writes a frame, well-formed or not
SendWire ==
  /\ ~portClosed
  /\ nsent < MaxWireFrames
  /\ \E f \in WireMenu :
       /\ pipe' = RCat(pipe, f.bytes)
       /\ kindsSent' = kindsSent \cup { f.kind }
       /\ firstFrame' = IF nsent = 0 THEN [ kind |-> f.kind, value |-> f.value ]
                        ELSE firstFrame
  /\ nsent' = nsent + 1
  /\ UNCHANGED << portClosed, stdin, listeners, pc, result, helperVars, disk,
                  mainVars, nativePort, isConnected, ports, timers, splits >>

\* the browser side disconnects the port
ClosePort ==
  /\ ~portClosed
  /\ portClosed' = TRUE
  /\ UNCHANGED << pipe, stdin, listeners, pc, result, helperVars, disk, mainVars,
                  browserVars, splits >>

\* stdin receives everything that is in the pipe and emits 'readable'
Deliver ==
  /\ pc = "awaiting" /\ stdin.scheduled = "none" /\ ~stdin.ended
  /\ pipe # << >>
  /\ pipe' = << >>
  /\ StdinTurn(RCat(stdin.buffer, pipe), FALSE)
  /\ UNCHANGED << portClosed, helperVars, disk, mainVars, browserVars, splits >>

\* stdin receives the first k bytes of the pipe only
DeliverPart ==
  /\ pc = "awaiting" /\ stdin.scheduled = "none" /\ ~stdin.ended
  /\ splits < MaxSplits
  /\ \E k \in { 1, PREFIX_BYTES, PREFIX_BYTES + 1 } :
       /\ k < RLen(pipe)
       /\ pipe' = RDrop(pipe, k)
       /\ StdinTurn(RCat(stdin.buffer, RTake(pipe, k)), FALSE)
  /\ splits' = splits + 1
  /\ UNCHANGED << portClosed, helperVars, disk, mainVars, browserVars >>

\* stdin reaches the end of the input and emits 'readable'
OnEof ==
  /\ pc = "awaiting" /\ stdin.scheduled = "none" /\ ~stdin.ended
  /\ portClosed /\ pipe = << >>
  /\ EofTurn(stdin.buffer)
  /\ UNCHANGED << pipe, portClosed, helperVars, disk, mainVars, browserVars, splits >>

\* the emission a readMessage() call scheduled
OnTick ==
  /\ pc = "awaiting" /\ stdin.scheduled # "none"
  /\ IF stdin.scheduled = "readable"
     THEN StdinTurn(stdin.buffer, stdin.ended)
     ELSE LET endNow == ~stdin.endEmitted /\ stdin.buffer = << >>
          IN  /\ stdin' = [ stdin EXCEPT !.scheduled = "none",
                                         !.endEmitted = @ \/ endNow ]
              /\ result' = IF endNow THEN [ kind |-> "value", value |-> JNull ]
                           ELSE NoResult
              /\ pc' = IF endNow THEN "settled" ELSE "awaiting"
              /\ UNCHANGED listeners
  /\ UNCHANGED << pipe, portClosed, helperVars, disk, mainVars, browserVars, splits >>

\* main: message === null, break
MainBreak ==
  /\ pc = "settled" /\ result.kind = "value" /\ result.value = JNull
  /\ pc' = "closed"
  /\ Consume(<< >>)
  /\ UNCHANGED << pipe, portClosed, stdin, listeners, helperVars, disk, browserVars,
                  splits >>

\* main: await handleMessage(message), then the next readMessage()
HandleMessage ==
  /\ pc = "settled" /\ result.kind = "value" /\ result.value # JNull
  /\ \E ticks \in Ticks :
       /\ clock + ticks[1] + ticks[2] <= MaxClock
       \* only the profile strategy reads the clock
       /\ (disk.webExt \/ ~disk.firefox) => ticks = [ i \in 1 .. 2 |-> 0 ]
       /\ Continued(handleMessage(result.value, [ Helper EXCEPT !.ticks = ticks ], disk))
  /\ NextRead(readMessage(stdin, listeners))
  /\ UNCHANGED << pipe, portClosed, disk, browserVars, splits >>

\* main: readMessage() rejected, the catch block answers with an error frame
MainCatch ==
  /\ pc = "settled" /\ result.kind = "error"
  /\ NextRead(readMessage(stdin, listeners))
  /\ ConsumeLogged(<< "Error processing message:" >>,
                   << [ type |-> "error", error |-> "Invalid JSON" ] >>)
  /\ pc' = "awaiting"
  /\ UNCHANGED << pipe, portClosed, helperVars, disk, browserVars, splits >>

Next ==
  \/ Startup
  \/ SendRequest
  \/ Deliver
  \/ HandleMessage

Spec == Init /\ [][Next]_vars

(***************************************************************************)
(* SpecWire: the same helper fed arbitrary frames (well-formed or not, in  *)
(* any grouping of bytes) in one fixed environment.                        *)
(***************************************************************************)
WireDisk ==
  [ webExt |-> TRUE, firefox |-> TRUE, configWrite |-> "done", killThrows |-> FALSE,
    spawn |-> "ok",
    items |-> << Item("b", TRUE, "corrupt", "", TRUE), ItemFile, ItemA, ItemC >> ]

InitWire ==
  /\ Init
  /\ disk = WireDisk
  /\ ~configFile.present

NextWire ==
  \/ Startup
  \/ SendWire
  \/ ClosePort
  \/ Deliver
  \/ DeliverPart
  \/ OnEof
  \/ OnTick
  \/ MainBreak
  \/ HandleMessage
  \/ MainCatch

SpecWire == InitWire /\ [][NextWire]_vars

(***************************************************************************)
(* SpecFault: Spec in one fixed environment in which a handler can fail    *)
(* unexpectedly.  The handler of status calls getFirefoxPath() while it    *)
(* builds its response; on win32 that evaluates os.homedir(), which throws *)
(* when the home directory cannot be determined.  Nothing has been sent or *)
(* changed by then; the rejection of handleMessage() reaches the catch     *)
(* block of main.                                                          *)
(***************************************************************************)
\* main without the try/catch: the rejection leaves main(), the process exits
HandlerThrowsUncaught ==
  /\ pc = "settled" /\ result.kind = "value" /\ result.value.t = "obj"
  /\ result.value.action = "status"
  /\ pc' = "closed"
  /\ Consume(<< >>)
  /\ UNCHANGED << pipe, portClosed, stdin, listeners, helperVars, disk, browserVars,
                  splits >>

HandlerThrows ==
  /\ pc = "settled" /\ result.kind = "value" /\ result.value.t = "obj"
  /\ result.value.action = "status"
  /\ NextRead(readMessage(stdin, listeners))
  /\ ConsumeLogged(<< "Error processing message:" >>,
                   << [ type |-> "error", error |-> "homedir" ] >>)
  /\ pc' = "awaiting"
  /\ UNCHANGED << pipe, portClosed, helperVars, disk, browserVars, splits >>

NextFault ==
  \/ Startup
  \/ SendRequest
  \/ Deliver
  \/ HandleMessage
  \/ HandlerThrows

SpecFault == InitWire /\ [][NextFault]_vars

(***************************************************************************)
(* SpecConfig: Spec over the config files a helper can find at startup and *)
(* the ways a save can end, in one environment otherwise.                  *)
(***************************************************************************)
ConfigDisks ==
  { [ WireDisk EXCEPT !.configWrite = w ] : w \in { "done", "refused", "cut" } }

InitConfig ==
  /\ Fresh
  /\ configFile \in PersistedFiles
  /\ disk \in ConfigDisks

SpecConfig == InitConfig /\ [][Next]_vars

(***************************************************************************)
(* SpecSpawn: Spec over the ways the spawn of web-ext can end.             *)
(***************************************************************************)
SpawnDisks ==
  { [ WireDisk EXCEPT !.spawn = o ] : o \in { "ok", "throws", "errorEvent" } }

InitSpawn ==
  /\ Fresh
  /\ configFile \in ConfigFiles
  /\ disk \in SpawnDisks

SpecSpawn == InitSpawn /\ [][Next]_vars

(***************************************************************************)
(* SpecPort: the connection state of the background script.  A port is     *)
(* opened by connectToNativeApp (at load, on the popup's "connect", on a   *)
(* send while not connected); the browser fires onDisconnect of a port     *)
(* when its helper process has gone.  The helper itself stays as started.  *)
(***************************************************************************)
\* connectToNativeApp(): connectNative returns a port, the listeners are
\* added and the status request is posted
PortConnect ==
  /\ Len(ports) < MaxPorts
  /\ ports' = Append(ports, [ open |-> TRUE, posted |-> 1 ])
  /\ nativePort' = Len(ports) + 1
  /\ isConnected' = TRUE
  /\ UNCHANGED << pipe, portClosed, stdin, listeners, pc, result, helperVars, disk,
                  mainVars, nsent, kindsSent, firstFrame, timers, splits >>

\* handleDisconnect(port), the onDisconnect listener of every port
PortDisconnect ==
  /\ \E port \in 1 .. Len(ports) :
       /\ ports[port].open
       /\ ports' = [ ports EXCEPT ![port].open = FALSE ]
  /\ isConnected' = FALSE
  /\ nativePort' = 0
  /\ UNCHANGED << pipe, portClosed, stdin, listeners, pc, result, helperVars, disk,
                  mainVars, nsent, kindsSent, firstFrame, timers, splits >>

\* sendToNative(message)
PortSend ==
  /\ IF ~isConnected \/ nativePort = 0
     THEN /\ Len(ports) < MaxPorts /\ timers < MaxTimers
          /\ ports' = Append(ports, [ open |-> TRUE, posted |-> 1 ])
          /\ nativePort' = Len(ports) + 1
          /\ isConnected' = TRUE
          /\ timers' = timers + 1
     ELSE /\ ports[nativePort].posted < MaxPosted
          /\ ports' = [ ports EXCEPT ![nativePort].posted = @ + 1 ]
          /\ UNCHANGED << nativePort, isConnected, timers >>
  /\ UNCHANGED << pipe, portClosed, stdin, listeners, pc, result, helperVars, disk,
                  mainVars, nsent, kindsSent, firstFrame, splits >>

\* the callback that sendToNative passed to setTimeout
PortRetry ==
  /\ timers > 0
  /\ timers' = timers - 1
  /\ ports' = IF isConnected /\ nativePort # 0 /\ ports[nativePort].posted < MaxPosted
              THEN [ ports EXCEPT ![nativePort].posted = @ + 1 ]
              ELSE ports
  /\ UNCHANGED << pipe, portClosed, stdin, listeners, pc, result, helperVars, disk,
                  mainVars, nsent, kindsSent, firstFrame, nativePort, isConnected,
                  splits >>

NextPort ==
  \/ PortConnect
  \/ PortDisconnect
  \/ PortSend
  \/ PortRetry

SpecPort == InitWire /\ [][NextPort]_vars

(***************************************************************************)
(* Properties.                                                             *)
(***************************************************************************)
\* main has taken up a request with the given action and is about to handle it
Requested(action) ==
  pc = "settled" /\ result.kind = "value" /\ result.value.t = "obj"
    /\ result.value.action = action

\* the last turn of main handled a request with the given action
Answered(action) ==
  handled.kind = "value" /\ handled.value.t = "obj" /\ handled.value.action = action

\* everything written to the pipe has reached the helper, which waits for more
Idle ==
  pc = "awaiting" /\ pipe = << >> /\ stdin.scheduled = "none" /\ ~stdin.ended

\* C1: every valid request frame is answered with exactly one response frame
\* that has a populated type; none yields zero frames, none yields two or more.
C1_ExactlyOneResponse ==
  handled.kind = "value" => Len(out) = 1 /\ out[1].type # ""

\* C2: decode(encode(v)) = v for every JSON value v whose encoded size is at
\* most 1 MiB (null, scalars and bodies of exactly 1 MiB included): once the
\* frame sendMessage writes for v has reached readMessage, the decoded frame
\* is v.
C2_RoundTrip ==
  ( /\ nsent = 1
    /\ firstFrame.kind \in { "request", "scalar", "null", "below", "exact" }
    /\ pipe = << >> /\ stdin.scheduled = "none" /\ ~stdin.ended
    /\ pc \in { "awaiting", "closed" } )
  => turn = 1 /\ handled = [ kind |-> "value", value |-> firstFrame.value ]

\* C3: a frame whose advertised length is 0 or exceeds 1 MiB is answered with
\* an error frame and the loop continues, so that once all frames have been
\* received every one of them has been answered.
C3_RejectedLengthAnswered ==
  (Idle /\ kindsSent \subseteq { "empty", "tooLarge", "request" })
  => answered = nsent

\* C4: a frame whose body does not parse is answered with exactly one error
\* frame and every later valid frame is decoded intact and answered, so that
\* once a malformed frame and the valid frames after it have been received
\* every one of them has been answered.
C4_MalformedBodyAnswered ==
  (Idle /\ firstFrame.kind = "malformed" /\ kindsSent = { "malformed", "request" })
  => answered = nsent /\ turn = nsent

\* C5: no valid frame is treated as the end of input: the loop closes only
\* when the stream has actually ended.
C5_ClosedOnlyAtEnd ==
  pc = "closed" => stdin.ended

\* the previous request was a successful unload of p
JustUnloaded(p) ==
  Answered("unload") /\ handled.value.path = p /\ out[1].success

\* C6: after a load of p that reported success (whichever strategy), the
\* first unload(p) returns success:true, and an unload(p) that follows a
\* successful unload(p) returns success:false with the not-loaded reason.
C6_UnloadTwice ==
  [][ (Requested("unload") /\ turn' = turn + 1) =>
        /\ result.value.path \in reported => out'[1].success
        /\ JustUnloaded(result.value.path) =>
             /\ ~out'[1].success
             /\ out'[1].error = "Extension not found in loaded list" ]_vars

\* C7: when the response to load(p) has success:false, the registry holds a
\* record for p after the request only if it held one before the request.
C7_NoRecordOnFailedLoad ==
  [][ (Requested("load") /\ turn' = turn + 1 /\ ~out'[1].success) =>
        (MapHas(loadedExtensions', result.value.path)
           => MapHas(loadedExtensions, result.value.path)) ]_vars

\* C8: load_all answers with exactly one entry per extension of a scan at
\* call time, in scan order, whether or not items failed, and the counts add
\* up to the scan size.
C8_LoadAllCoversScan ==
  Answered("load_all") =>
    /\ Len(out) = 1 /\ out[1].type = "load_all_result"
    /\ Len(out[1].results) = Len(scanExtensionsFolder(Helper, disk))
    /\ \A i \in 1 .. Len(out[1].results) :
         out[1].results[i].name = scanExtensionsFolder(Helper, disk)[i].name
    /\ out[1].totalLoaded + out[1].totalFailed = Len(out[1].results)

\* a load_all whose first item failed and whose second item was loaded
C8_FailureThenSuccess ==
  /\ Answered("load_all")
  /\ Len(out[1].results) = 2
  /\ ~out[1].results[1].success /\ out[1].results[2].success

\* the sub-directories of the folder that hold a manifest.json, and those
\* among them whose manifest does not parse
Candidates(d) ==
  { i \in 1 .. Len(d.items) : d.items[i].isDirectory /\ d.items[i].manifest # "none" }
CorruptOnes(d) == { i \in Candidates(d) : d.items[i].manifest = "corrupt" }

\* load_all was answered for the folder, in which exactly one manifest is corrupt
LoadAllWithOneCorrupt ==
  /\ Answered("load_all")
  /\ config.extensionFolder = FOLDER
  /\ Cardinality(CorruptOnes(disk)) = 1

\* C9 as stated: with K extensions of which exactly one has a corrupt
\* manifest, load_all returns K-1 successes plus one failure, K entries in all.
C9_OneFailureEntry ==
  (LoadAllWithOneCorrupt /\ disk.webExt) =>
    /\ out[1].totalLoaded = Cardinality(Candidates(disk)) - 1
    /\ out[1].totalFailed = 1
    /\ Len(out[1].results) = Cardinality(Candidates(disk))

\* C9 amended: with K directories holding a manifest of which exactly one is
\* corrupt, load_all returns K-1 entries and none for the corrupt one, which
\* the scan skipped: no failure is reported for it, the K-1 entries are all
\* successes when web-ext is available, and the number of entries is the
\* scan size.
C9_CorruptSkipped ==
  LoadAllWithOneCorrupt =>
    /\ Len(out[1].results) = Cardinality(Candidates(disk)) - 1
    /\ Len(out[1].results) = Len(scanExtensionsFolder(Helper, disk))
    /\ \A i \in 1 .. Len(out[1].results) : \A j \in CorruptOnes(disk) :
         out[1].results[i].name # disk.items[j].name
    /\ out[1].totalLoaded + out[1].totalFailed = Cardinality(Candidates(disk)) - 1
    /\ disk.webExt =>
         /\ out[1].totalLoaded = Cardinality(Candidates(disk)) - 1
         /\ out[1].totalFailed = 0

\* a load_all over two candidates, one corrupt, that loaded the other one
C9_LoadedAllButCorrupt ==
  /\ LoadAllWithOneCorrupt
  /\ Cardinality(Candidates(disk)) = 2
  /\ out[1].totalLoaded = 1 /\ out[1].totalFailed = 0

\* C10: unload_all answers with exactly one entry per record the registry
\* holds when the request starts (none skipped, none repeated), and the
\* registry is empty when the response is sent.
C10_UnloadAllCoversRegistry ==
  [][ (Requested("unload_all") /\ turn' = turn + 1) =>
        /\ Len(out') = 1 /\ out'[1].type = "unload_all_result"
        /\ Len(out'[1].results) = Len(loadedExtensions)
        /\ \A i \in 1 .. Len(loadedExtensions) :
             /\ out'[1].results[i].path = loadedExtensions[i].path
             /\ out'[1].results[i].success
        /\ loadedExtensions' = << >> ]_vars

\* an unload_all that found two records and removed both
C10_TwoRecordsUnloaded ==
  /\ Answered("unload_all")
  /\ Len(out[1].results) = 2
  /\ out[1].results[1].path # out[1].results[2].path
  /\ loadedExtensions = << >>

\* the fields of an aggregated response other than its type and detail list
CountFields(m) == DOMAIN m \ { "type", "results" }

\* C11: the responses of load_all and unload_all both carry counts of
\* successes and failures next to the detail list, each count is the number
\* of entries with that outcome, and together they are the number of entries.
C11_CountsWithDetail ==
  /\ Answered("load_all") =>
       /\ { "totalLoaded", "totalFailed" } \subseteq CountFields(out[1])
       /\ out[1].totalLoaded =
            Cardinality({ i \in 1 .. Len(out[1].results) : out[1].results[i].success })
       /\ out[1].totalFailed =
            Cardinality({ i \in 1 .. Len(out[1].results) : ~out[1].results[i].success })
       /\ out[1].totalLoaded + out[1].totalFailed = Len(out[1].results)
  /\ Answered("unload_all") => CountFields(out[1]) # { }

\* C12: unload(p) for a path without a record is answered with an ordinary
\* unload_result that has success:false and the not-loaded reason; no process
\* is terminated, the registry is unchanged and the loop reads on.
C12_UnloadWithoutRecord ==
  [][ ( /\ Requested("unload")
        /\ ~MapHas(loadedExtensions, result.value.path)
        /\ turn' = turn + 1 ) =>
        /\ out' = << [ type |-> "unload_result", success |-> FALSE,
                       error |-> "Extension not found in loaded list",
                       path |-> result.value.path ] >>
        /\ loadedExtensions' = loadedExtensions
        /\ children' = children
        /\ pc' = "awaiting" ]_vars

\* an unload of a path without a record while another path has one
C12_OtherRecordKept ==
  /\ Answered("unload") /\ ~out[1].success
  /\ loadedExtensions # << >>
  /\ ~MapHas(loadedExtensions, handled.value.path)
  /\ \A i \in 1 .. Len(children) : ~children[i].killed

\* C13: unload(p) for a path with a record calls kill() on the recorded
\* process handle, removes the record and returns success:true, also when
\* kill() raises an error.
C13_UnloadWithRecord ==
  [][ ( /\ Requested("unload")
        /\ MapHas(loadedExtensions, result.value.path)
        /\ turn' = turn + 1 ) =>
        /\ out' = << [ type |-> "unload_result", success |-> TRUE, error |-> "",
                       path |-> result.value.path ] >>
        /\ ~MapHas(loadedExtensions', result.value.path)
        /\ Len(loadedExtensions') = Len(loadedExtensions) - 1
        /\ children'[MapGet(loadedExtensions, result.value.path).process].killed
        /\ \A i \in 1 .. Len(children) :
             i # MapGet(loadedExtensions, result.value.path).process
               => children'[i] = children[i] ]_vars

\* a successful unload whose kill() raised an error
C13_KillRaised ==
  /\ Answered("unload") /\ out[1].success
  /\ ~MapHas(loadedExtensions, handled.value.path)
  /\ \E i \in 1 .. Len(children) :
       /\ children[i].path = handled.value.path
       /\ children[i].killed /\ children[i].killThrows

\* the load step of a request for one path
LoadStep == Requested("load") /\ turn' = turn + 1

\* C14 as stated: with the loader tool found a load uses it and touches no
\* profile; a profile is prepared only without the tool, and then, with a
\* browser found, the response is success:true with method "profile" and
\* the path of the prepared profile.
C14_ProfileAlwaysSucceeds ==
  [][ LoadStep =>
        /\ disk.webExt => profiles' = profiles
        /\ (~disk.webExt /\ disk.firefox) =>
             /\ out'[1].success /\ out'[1].method = "profile"
             /\ out'[1].profilePath = profiles'[Len(profiles')].path ]_vars

\* C14 amended: as stated, but without the tool and with a browser found the
\* response is success:true with method "profile" and the profile path when
\* the copy of the extension's tree succeeds and its manifest.json parses,
\* and success:false otherwise.
C14_StrategyOrder ==
  [][ LoadStep =>
        /\ disk.webExt =>
             /\ profiles' = profiles
             /\ Len(children') = Len(children) + 1
             /\ out'[1].success => out'[1].method = "web-ext"
        /\ profiles' # profiles => ~disk.webExt
        /\ (~disk.webExt /\ disk.firefox) =>
             /\ Len(profiles') = Len(profiles) + 1
             /\ children' = children
             /\ out'[1].success =
                  (copyDirSync(disk, result.value.path)
                     /\ ManifestReadable(disk, result.value.path))
             /\ out'[1].success =>
                  /\ out'[1].method = "profile"
                  /\ out'[1].profilePath = profiles'[Len(profiles')].path
                  /\ profiles'[Len(profiles')].source = result.value.path ]_vars

\* a load answered with method "profile" and the path of the profile it prepared
C14_ProfilePrepared ==
  /\ Answered("load") /\ out[1].success /\ out[1].method = "profile"
  /\ ~disk.webExt /\ disk.firefox
  /\ profiles # << >>
  /\ out[1].profilePath = profiles[Len(profiles)].path

\* neither web-ext nor a browser is found, or the copy into the profile fails
LoadDomainFailure(p) ==
  ~disk.webExt /\ (~disk.firefox \/ ~copyDirSync(disk, p))

\* C15: when neither a loader tool nor a browser is found, or the copy of
\* the profile strategy fails, the load request is answered with a
\* load_result that has success:false and an error message, no process is
\* spawned, and the loop goes on: main reads the next frame and answers it.
C15_LoadFailureIsValue ==
  [][ /\ (LoadStep /\ LoadDomainFailure(result.value.path)) =>
           /\ Len(out') = 1
           /\ out'[1].type = "load_result" /\ ~out'[1].success
           /\ out'[1].error # "" /\ out'[1].path = result.value.path
           /\ children' = children /\ loadedExtensions' = loadedExtensions
           /\ pc' = "awaiting"
           /\ \E i \in 1 .. Len(listeners') : listeners'[i].current
      /\ (Answered("load") /\ ~out[1].success /\ turn' = turn + 1) =>
           Len(out') >= 1 ]_vars

\* a request answered right after a load that failed in the copy
C15_AnsweredAfterFailure ==
  /\ turn = 2 /\ answered = 2
  /\ reported = { }
  /\ Len(profiles) = 1 /\ ~profiles[1].complete /\ profiles[1].source = "/ext/b"
  /\ children = << >>
  /\ ~Answered("load") /\ ~Answered("load_all")

\* the last turn was a status request whose handler failed
FaultAnswered == Answered("status") /\ out[1].type = "error"

\* C16: a failure raised inside a handler is caught by main and answered
\* with one generic error frame; the loop does not end: the next frame is
\* read and processed.
C16_HandlerFailureCaught ==
  [][ /\ (pc = "settled" /\ turn' = turn + 1) =>
           /\ pc' = "awaiting"
           /\ Len(out') >= 1
           /\ \E i \in 1 .. Len(listeners') : listeners'[i].current
      /\ (Requested("status") /\ turn' = turn + 1 /\ out'[1].type # "status") =>
           /\ out' = << [ type |-> "error", error |-> "homedir" ] >>
           /\ UNCHANGED helperVars
      /\ (FaultAnswered /\ turn' = turn + 1) =>
           /\ result.kind = "value"
           /\ answered' = answered + 1
           /\ (result.value.action \in ActionNames \ { "status" })
                => out'[1].type # "error" ]_vars

\* after a handler failure was answered, the next frame has been read and
\* decoded and is about to be handled
C16_NextFrameDecoded ==
  /\ FaultAnswered /\ out = << [ type |-> "error", error |-> "homedir" ] >>
  /\ pc = "settled" /\ result.kind = "value"
  /\ result.value = JObj("load_all", Absent)

\* the response type the claim gives to an action
ResponseType(action) ==
  CASE action = "status" -> "status"
    [] action = "scan" -> "extensions_list"
    [] action = "set_folder" -> "folder_set"
    [] action = "load" -> "load_result"
    [] action = "load_all" -> "load_all_result"
    [] action = "unload" -> "unload_result"
    [] action = "unload_all" -> "unload_all_result"
    [] OTHER -> "error"

\* C17: the action of a request fixes the type of its response (any other or
\* missing action gives error), and a request never receives a frame of a
\* type that belongs to a different action.
C17_ActionFixesType ==
  (handled.kind = "value" /\ handled.value.t = "obj") =>
     /\ out # << >>
     /\ \A i \in 1 .. Len(out) : out[i].type = ResponseType(handled.value.action)

\* C18: when the input stream ends, from any waiting state (nothing
\* buffered, a partial prefix, a partial body, a frame with a rejected
\* length), the loop ends: once the end of input has been taken, main is not
\* left waiting.  (A helper with no live child process ends with its event
\* loop; one whose web-ext child still runs stays.)
C18_EndOfInputCloses ==
  ( /\ stdin.ended /\ stdin.scheduled = "none"
    /\ \E i \in 1 .. Len(children) : ~children[i].killed )
  => pc # "awaiting"

\* C19: a scan with the configured folder unset or not existing is answered
\* with one extensions_list frame whose list is empty, not with an error.
C19_ScanWithoutFolder ==
  (Answered("scan") /\ config.extensionFolder # FOLDER) =>
     out = << [ type |-> "extensions_list", extensions |-> << >>,
                folder |-> config.extensionFolder ] >>

\* a scan answered while the configured folder does not exist
C19_ScannedMissingFolder ==
  /\ Answered("scan") /\ config.extensionFolder = "/nowhere"
  /\ out[1].type = "extensions_list" /\ out[1].extensions = << >>

\* the positions in the listing of the sub-directories whose manifest parses,
\* and the k-th of them in listing order
WithManifest(d) ==
  { i \in 1 .. Len(d.items) : d.items[i].isDirectory /\ d.items[i].manifest = "valid" }
NthWithManifest(d, k) ==
  CHOOSE i \in WithManifest(d) : Cardinality({ j \in WithManifest(d) : j <= i }) = k

\* C20: a scan of a folder with N sub-directories, M of them with a manifest
\* that parses, returns exactly M descriptors, one per such sub-directory in
\* listing order; sub-directories with a missing or unparsable manifest and
\* entries that are not directories give no descriptor.
C20_ScanDescriptors ==
  (Answered("scan") /\ config.extensionFolder = FOLDER) =>
     /\ Len(out) = 1 /\ out[1].type = "extensions_list"
     /\ Len(out[1].extensions) = Cardinality(WithManifest(disk))
     /\ \A k \in 1 .. Len(out[1].extensions) :
          /\ out[1].extensions[k].folder = disk.items[NthWithManifest(disk, k)].name
          /\ out[1].extensions[k].path =
               PathJoin(FOLDER, disk.items[NthWithManifest(disk, k)].name)

\* a scan that passed over an unparsable manifest, a file and a directory
\* without manifest and still returned the one extension listed after them
C20_SkippedAndWentOn ==
  /\ Answered("scan") /\ config.extensionFolder = FOLDER
  /\ disk.items[1].manifest = "corrupt"
  /\ Len(out[1].extensions) = 1 /\ out[1].extensions[1].folder = "a"

\* C21: the status response reports the in-memory state at the time of the
\* request: loadedCount is the number of records in the registry and
\* extensionFolder is the folder of the in-memory config; the first status of
\* a helper started without a config file reports "" and 0.
C21_StatusReportsState ==
  [][ (Requested("status") /\ turn' = turn + 1) =>
        /\ Len(out') = 1 /\ out'[1].type = "status"
        /\ out'[1].loadedCount = Len(loadedExtensions)
        /\ out'[1].extensionFolder = config.extensionFolder
        /\ (turn = 0 /\ ~configFile.present) =>
             out'[1].extensionFolder = "" /\ out'[1].loadedCount = 0 ]_vars

\* a status that counted the two records of the registry
C21_CountedTwoRecords ==
  /\ Answered("status")
  /\ out[1].loadedCount = 2 /\ Len(loadedExtensions) = 2
  /\ out[1].extensionFolder = FOLDER

\* C22: the config is read once, at startup, and afterwards changed by
\* set_folder only (which sets the folder and nothing else): the handlers of
\* status, scan, load, load_all, unload, unload_all and of unknown actions
\* leave every field of the config and the config file as they are.
C22_ConfigOnlyBySetFolder ==
  [][ /\ (pc = "settled" /\ ~Requested("set_folder")) =>
           config' = config /\ configFile' = configFile
      /\ (Requested("set_folder") /\ turn' = turn + 1) =>
           config' = [ config EXCEPT !.extensionFolder = result.value.path ]
      /\ pc = "start" => configFile' = configFile
      /\ pc = "awaiting" => config' = config /\ configFile' = configFile ]_vars

\* a scan answered while the folder in memory is not the persisted one
C22_ScannedWithUnsavedFolder ==
  /\ Answered("scan")
  /\ config.extensionFolder = "/nowhere"
  /\ configFile = ConfigFile(TRUE, "object", [ extensionFolder |-> FOLDER ])

\* C23: loadConfig merges the persisted keys over the built-in defaults (a
\* persisted value wins for its key, a key missing from the file keeps its
\* default); with no file, or one that cannot be read or parsed, the config
\* is the defaults; in every case main goes on to wait for the first message.
C23_LoadMergesOverDefaults ==
  [][ pc = "start" =>
        /\ pc' = "awaiting"
        /\ \E i \in 1 .. Len(listeners') : listeners'[i].current
        /\ IF configFile.present /\ configFile.content = "object"
           THEN /\ DOMAIN config' = DOMAIN DefaultConfig \cup DOMAIN configFile.data
                /\ \A k \in DOMAIN configFile.data : config'[k] = configFile.data[k]
                /\ \A k \in DOMAIN DefaultConfig \ DOMAIN configFile.data :
                     config'[k] = DefaultConfig[k]
           ELSE config' = DefaultConfig ]_vars

\* a helper that started with a file naming the folder only: the folder is
\* the persisted one, the other fields are the defaults
C23_StartedWithPartialFile ==
  /\ pc = "awaiting" /\ turn = 0
  /\ configFile = ConfigFile(TRUE, "object", [ extensionFolder |-> FOLDER ])
  /\ config = [ DefaultConfig EXCEPT !.extensionFolder = FOLDER ]

\* C24: a save is atomic: whenever the config file changes, it changes from
\* the complete previous config to the complete new one; it never holds a
\* partial text.
C24_SaveAtomic ==
  [][ \/ configFile' = configFile
      \/ configFile' = ConfigFile(TRUE, "object", config') ]_vars

\* C25: a frame is rejected as too large exactly when its advertised length
\* exceeds 1 MiB: once a frame has been received whole, it has been decoded
\* and taken up if its length is 1,048,575 or exactly 1,048,576, and it has
\* not been taken up if its length is 1,048,577.
C25_LimitIsOneMiB ==
  (Idle /\ nsent = 1) =>
     /\ firstFrame.kind \in { "below", "exact" } =>
          /\ turn = 1 /\ handled.kind = "value"
          /\ handled.value = firstFrame.value
          /\ stdin.buffer = << >>
     /\ firstFrame.kind = "tooLarge" => turn = 0

\* the path names an entry of the given folder
Inside(p, folder) ==
  /\ folder \notin { "", Absent }
  /\ \E name \in { "a", "b", "c", "notes.txt" } : p = PathJoin(folder, name)

\* C26: the helper only touches the configured extensions folder: a load
\* request spawns the loader tool for, or copies into a profile, only a path
\* inside the configured extensionFolder; a load of a path outside it spawns
\* nothing and copies nothing.
C26_LoadsInsideFolder ==
  [][ LoadStep =>
        \/ Inside(result.value.path, config.extensionFolder)
        \/ children' = children /\ profiles' = profiles ]_vars

\* C27: a request is processed to the end, its response written, before the
\* next frame is read, so that responses come in the order of the requests:
\* the read that takes up a request consumes the bytes of that frame and no
\* byte behind it, the handling step consumes no input and writes the
\* response to the request just taken up, and the first request answered is
\* the first one written.
C27_ProcessedBeforeNextRead ==
  [][ /\ ( /\ pc = "awaiting" /\ pc' = "settled"
           /\ Len(listeners) = 1
           /\ result'.kind = "value" /\ result'.value # JNull ) =>
             RCat(stdin.buffer, pipe) =
               RCat(RDrop(sendMessage(result'.value), listeners[1].bytesRead),
                    RCat(stdin'.buffer, pipe'))
      /\ (pc = "settled" /\ pc' = "awaiting") =>
             /\ stdin'.buffer = stdin.buffer /\ pipe' = pipe
             /\ handled' = result /\ out' # << >>
             /\ turn' = turn + 1 /\ answered' = answered + 1
      /\ (turn = 0 /\ turn' = 1 /\ firstFrame.kind \in { "request", "scalar" }) =>
             result.kind = "value" /\ result.value = firstFrame.value ]_vars

\* the first of two requests written back to back has been answered while
\* the second one is still unread in the buffer of the stream
C27_SecondFrameStillUnread ==
  /\ turn = 1 /\ answered = 1
  /\ firstFrame.value = JObj("load", "/ext/a")
  /\ handled.value = firstFrame.value
  /\ out[1].type = "load_result"
  /\ stdin.buffer = sendMessage(JObj("status", Absent))

\* C28: with the loader tool, a load is reported successful as soon as the
\* spawn has returned, the process still running and not waited for; when
\* the spawn fails, the load is reported with success:false, no record is
\* made and the helper goes on to read the next message.
C28_SpawnOutcome ==
  [][ (LoadStep /\ disk.webExt) =>
        /\ (disk.spawn = "ok" /\ ManifestReadable(disk, result.value.path)) =>
             /\ out'[1].success /\ out'[1].method = "web-ext"
             /\ MapHas(loadedExtensions', result.value.path)
             /\ ~children'[Len(children')].killed
             /\ pc' = "awaiting"
        /\ disk.spawn # "ok" =>
             /\ ~out'[1].success
             /\ loadedExtensions' = loadedExtensions
             /\ pc' = "awaiting" ]_vars

\* C29: the registry tracks the loads through the loader tool only: every
\* record has method "web-ext" and the handle of a spawned process, and a
\* load that succeeds by preparing a profile (a single load or an item of
\* load_all) leaves the registry as it was.
C29_RegistryOnlyWebExt ==
  [][ /\ \A i \in 1 .. Len(loadedExtensions') :
           /\ loadedExtensions'[i].method = "web-ext"
           /\ loadedExtensions'[i].process \in 1 .. Len(children')
           /\ children'[loadedExtensions'[i].process].path = loadedExtensions'[i].path
      /\ (LoadStep /\ out'[1].success /\ out'[1].method = "profile") =>
           /\ loadedExtensions' = loadedExtensions
           /\ Len(profiles') = Len(profiles) + 1
      /\ (Requested("load_all") /\ turn' = turn + 1 /\ profiles' # profiles) =>
           loadedExtensions' = loadedExtensions ]_vars

\* a status that reports no loaded extension after a load through a
\* prepared profile was reported successful
C29_ProfileLoadNotCounted ==
  /\ Answered("status") /\ out[1].loadedCount = 0
  /\ reported # { }
  /\ profiles # << >> /\ profiles[1].complete
  /\ loadedExtensions = << >>

\* main is about to handle a request that is neither a load nor an unload
\* of any kind
RequestedOther ==
  /\ pc = "settled" /\ result.kind = "value" /\ result.value # JNull
  /\ \/ result.value.t # "obj"
     \/ result.value.action \notin { "load", "load_all", "unload", "unload_all" }

\* C30: only the load and unload operations change the registry: status,
\* scan, set_folder and requests with an unknown action leave the records as
\* they are, nothing changes them between requests, and a load or unload of
\* a path p neither adds, changes nor removes the record of another path.
C30_RegistryOnlyByLoadUnload ==
  [][ /\ (RequestedOther \/ pc # "settled") => loadedExtensions' = loadedExtensions
      /\ ((Requested("load") \/ Requested("unload")) /\ turn' = turn + 1) =>
           \A q \in (MapKeys(loadedExtensions) \cup MapKeys(loadedExtensions'))
                      \ { result.value.path } :
             /\ MapHas(loadedExtensions, q) /\ MapHas(loadedExtensions', q)
             /\ MapGet(loadedExtensions', q) = MapGet(loadedExtensions, q) ]_vars

\* an unload of one path that left the record of the other path in place
C30_OtherRecordStays ==
  /\ Answered("unload") /\ out[1].success
  /\ Len(loadedExtensions) = 1
  /\ loadedExtensions[1].path # handled.value.path
  /\ ~children[loadedExtensions[1].process].killed

\* C31: every load that prepares a profile uses a fresh temporary directory:
\* the profile paths of one helper run are pairwise different, also those
\* of consecutive loads of one load_all within the same millisecond.
C31_FreshProfileEachLoad ==
  \A i, j \in 1 .. Len(profiles) : i # j => profiles[i].path # profiles[j].path

\* C34: every loader process spawned and not yet signalled is the one its
\* path's record refers to, so that an unload of the path reaches it, also
\* after two loads of the path without an unload in between.
C34_EveryProcessTracked ==
  \A i \in 1 .. Len(children) :
    ~children[i].killed =>
      /\ MapHas(loadedExtensions, children[i].path)
      /\ MapGet(loadedExtensions, children[i].path).process = i

\* C35: set_folder stores message.path in the config in memory and answers
\* folder_set with success:true, also when the config cannot be persisted,
\* and the folder_set frame is followed at once by an extensions_list frame
\* with a scan of the new folder.
C35_SetFolderAlwaysAnswers ==
  [][ (Requested("set_folder") /\ turn' = turn + 1) =>
        /\ config'.extensionFolder = result.value.path
        /\ Len(out') = 2
        /\ out'[1] = [ type |-> "folder_set", success |-> TRUE,
                       path |-> result.value.path ]
        /\ out'[2] = [ type |-> "extensions_list",
                       extensions |->
                         IF result.value.path = FOLDER
                         THEN ScanItems(FOLDER, disk.items) ELSE << >>,
                       folder |-> result.value.path ] ]_vars

\* a set_folder answered while the file could not be written: the folder is
\* in memory, the file is not there
C35_AnsweredWithoutSave ==
  /\ Answered("set_folder") /\ handled.value.path = FOLDER
  /\ disk.configWrite = "refused" /\ ~configFile.present
  /\ config.extensionFolder = FOLDER
  /\ out[1].success /\ Len(out[2].extensions) = 2

\* C33: a scanned descriptor takes its fields from the manifest with fixed
\* defaults: name falls back to the name of the sub-directory, version to
\* "0.0.0", description to "", manifestVersion to 2; path is the folder
\* joined with the sub-directory's name and folder is that name.  A folder
\* whose only parsable manifest is that of a, with name "A" and version
\* "1.0", gives the one descriptor A, 1.0, /ext/a, a, 2.
C33_DescriptorDefaults ==
  (Answered("scan") /\ config.extensionFolder = FOLDER) =>
     /\ \A k \in 1 .. Len(out[1].extensions) :
          LET e == out[1].extensions[k]
              item == disk.items[NthWithManifest(disk, k)]
          IN  /\ e.name = IF item.manifestName = "" THEN item.name ELSE item.manifestName
              /\ e.version = IF item.version = "" THEN "0.0.0" ELSE item.version
              /\ e.description = item.description
              /\ e.manifestVersion =
                   IF item.manifestVersion = 0 THEN 2 ELSE item.manifestVersion
              /\ e.path = PathJoin(FOLDER, item.name)
              /\ e.folder = item.name
     /\ WithManifest(disk) = { 3 } =>
          out[1].extensions =
            << [ name |-> "A", version |-> "1.0", description |-> "",
                 path |-> "/ext/a", folder |-> "a", manifestVersion |-> 2 ] >>

\* a scan that filled in the name and the version of one descriptor and the
\* description and the manifest version of the other
C33_DefaultsFilledIn ==
  /\ Answered("scan") /\ Len(out[1].extensions) = 2
  /\ out[1].extensions[1] =
       [ name |-> "b", version |-> "0.0.0", description |-> "about b",
         path |-> "/ext/b", folder |-> "b", manifestVersion |-> 3 ]
  /\ out[1].extensions[2].name = "A" /\ out[1].extensions[2].manifestVersion = 2

\* C36: the extensionFolder of the config in memory is always a string: a
\* set_folder request without a path (or with a path that is not a string)
\* does not store its value.
C36_FolderIsString ==
  "extensionFolder" \in DOMAIN config /\ config.extensionFolder # Absent

\* the array of the background script has an entry with this path
InMirror(entries, p) == \E i \in 1 .. Len(entries) : entries[i] = p

\* C37: the array loadedExtensions of the background script holds a path
\* only if a load_result with success:true was received for it and no
\* unload_result with success:true after that: a path enters the array only
\* with such a load_result and leaves it only with such an unload_result; an
\* extensions_list frame neither adds nor removes an entry.
C37_MirrorFollowsResults ==
  [][ \A p \in PathNames \cup { PathJoin(FOLDER, "c") } :
        /\ (InMirror(mirror', p) /\ ~InMirror(mirror, p)) =>
             \E i \in 1 .. Len(out') :
               out'[i].type = "load_result" /\ out'[i].success /\ out'[i].path = p
        /\ (InMirror(mirror, p) /\ ~InMirror(mirror', p)) =>
             \E i \in 1 .. Len(out') :
               out'[i].type = "unload_result" /\ out'[i].success /\ out'[i].path = p ]_vars

\* C38: the array of the background script follows the bulk operations:
\* after the response to unload_all it holds no path that the registry of
\* the helper no longer holds, and after the response to load_all it holds
\* every path the helper reported as loaded.
C38_MirrorFollowsBulk ==
  /\ Answered("unload_all") =>
       \A p \in PathNames : InMirror(mirror, p) => MapHas(loadedExtensions, p)
  /\ Answered("load_all") =>
       \A k \in 1 .. Len(out[1].results) :
         out[1].results[k].success =>
           InMirror(mirror, scanExtensionsFolder(Helper, disk)[k].path)

\* the frames that a byte stream consists of, read as the browser reads
\* them: a 4-byte little-endian length, then that many bytes of body; a
\* stream that ends inside a frame yields the element "partial"
RECURSIVE Frames(_)
Frames(bytes) ==
  IF bytes = << >> THEN << >>
  ELSE IF Len(bytes) < PREFIX_BYTES
          \/ Len(bytes) < PREFIX_BYTES + readUInt32LE(SubSeq(bytes, 1, PREFIX_BYTES))
  THEN << "partial" >>
  ELSE LET n == readUInt32LE(SubSeq(bytes, 1, PREFIX_BYTES))
       IN  << SubSeq(bytes, PREFIX_BYTES + 1, PREFIX_BYTES + n) >>
             \o Frames(SubSeq(bytes, PREFIX_BYTES + n + 1, Len(bytes)))

\* the chunks written to a stream, one after the other
RECURSIVE Flattened(_)
Flattened(chunks) ==
  IF chunks = << >> THEN << >> ELSE chunks[1] \o Flattened(Tail(chunks))

\* C32: the output stream consists only of whole frames: what a turn writes
\* to stdout reads as one frame for each response of the turn, in order,
\* whose length is the byte length of the UTF-8 JSON body that follows it
\* immediately and whose body is the text of that response; no bytes of
\* another response or of a diagnostic lie between or inside the frames.
C32_OutputIsWholeFrames ==
  LET frames == Frames(Flattened(stdio.stdout))
  IN  /\ Len(frames) = Len(out)
      /\ \A i \in 1 .. Len(out) : frames[i] = BufferFrom(Stringify(out[i]))

\* two responses were written in a turn that also logged a diagnostic, and
\* a body holds a character that takes more than one byte
C32_TwoFramesAndDiagnostic ==
  /\ Len(out) = 2
  /\ stdio.stderr # << >>
  /\ \E i \in 1 .. Len(out) :
       Len(BufferFrom(Stringify(out[i]))) > Len(Stringify(out[i]))

\* C39: isConnected is true exactly when nativePort refers to a port that
\* has not disconnected, and the disconnect event of a port that a later
\* connect has superseded does not clear the current port: it leaves
\* nativePort and isConnected as they were.
C39_ConnectionStateConsistent ==
  [][ /\ isConnected' <=> (nativePort' # 0 /\ ports'[nativePort'].open)
      /\ \A port \in 1 .. Len(ports) :
           (ports[port].open /\ ~ports'[port].open /\ port # nativePort) =>
             (nativePort' = nativePort /\ isConnected' = isConnected) ]_vars
====
